---------------------------- MODULE Spec2Model ----------------------------
(***************************************************************************)
(* A model of package date (gonih.org/date): the proleptic Gregorian       *)
(* calendar arithmetic of date.go and the layout compiler, formatter and   *)
(* parser of format.go.                                                    *)
(*                                                                         *)
(* Strings are sequences of one-character strings.  A Date is an integer.  *)
(* The absolute day count (uint64 in the source, about 1.07e14) and the    *)
(* absolute year (about 2.9e11) exceed the integers of the model checker,  *)
(* so they are kept in mixed radix: an absolute day count is the pair      *)
(* <<n, r>> that stands for n * daysPer400Years + r, and an absolute year  *)
(* the pair that stands for 400 * n + r.  absoluteZeroYear is              *)
(* 1 - 400 * zeroCycles and internalToAbsolute is                          *)
(* zeroCycles * daysPer400Years, exactly.                                  *)
(***************************************************************************)
EXTENDS Integers, Sequences, FiniteSets, TLC

VARIABLES
    pc,     \* the position of the calling program, or of each goroutine
    call,   \* the arguments of the call under way, or of each goroutine's call
    ret     \* the values returned so far; with goroutines, also the cache
            \* they share and their local variables

vars == <<pc, call, ret>>

-----------------------------------------------------------------------------
(* date.go: constants and tables *)

\* absoluteZeroYear = -292277022399 = 1 - 400 * zeroCycles
zeroCycles == 730692556

daysPer400Years == 146097
daysPer100Years == 36524
daysPer4Years == 1461

January == 1
February == 2
March == 3

\* daysBefore[m] of the source is daysBefore[m + 1] here (sequences start at 1).
daysBeforeTable ==
    <<0, 31, 59, 90, 120, 151, 181, 212, 243, 273, 304, 334, 365>>

daysBefore(m) == daysBeforeTable[m + 1]

\* isLeap by the Julian rule
isLeapJulian(y) == y % 4 = 0

isLeap(y) == (y % 4 = 0) /\ ((y % 100 # 0) \/ (y % 400 = 0))

\* daysIn without the leap-year case
daysInNoLeap(m, y) == daysBefore(m) - daysBefore(m - 1)

daysIn(m, y) ==
    IF m = February /\ isLeap(y) THEN 29
    ELSE daysBefore(m) - daysBefore(m - 1)

\* Go's integer division truncates toward zero.
GoDiv(a, b) == IF a >= 0 THEN a \div b ELSE -((-a) \div b)

\* norm without the borrow from hi when lo is negative
normNoBorrow(hi, lo, base) ==
    LET n1  == GoDiv(-lo - 1, base) + 1
        lo1 == IF lo < 0 THEN lo + n1 * base ELSE lo
        n2  == GoDiv(lo1, base)
    IN  IF lo1 >= base THEN <<hi + n2, lo1 - n2 * base>> ELSE <<hi, lo1>>

norm(hi, lo, base) ==
    LET n1  == GoDiv(-lo - 1, base) + 1
        hi1 == IF lo < 0 THEN hi - n1 ELSE hi
        lo1 == IF lo < 0 THEN lo + n1 * base ELSE lo
        n2  == GoDiv(lo1, base)
    IN  IF lo1 >= base THEN <<hi1 + n2, lo1 - n2 * base>> ELSE <<hi1, lo1>>

\* daysSinceEpoch counting a leap day every fourth year, the centuries included
daysSinceEpochJulian(y) ==
    <<zeroCycles + ((y - 1) \div 400),
      daysPer4Years * (((y - 1) % 400) \div 4) + 365 * (((y - 1) % 400) % 4)>>

\* The absolute day count of the start of year y, as <<n, r>>.  y - absoluteZeroYear
\* is 400 * zeroCycles + (y - 1), which is not negative for any modelled year,
\* so the source's truncating divisions are floor divisions.
daysSinceEpoch(y) ==
    LET n400 == zeroCycles + ((y - 1) \div 400)
        y1   == (y - 1) % 400
        n100 == y1 \div 100
        y2   == y1 - 100 * n100
        n4   == y2 \div 4
        y3   == y2 - 4 * n4
    IN  <<n400, daysPer100Years * n100 + daysPer4Years * n4 + 365 * y3>>

Of(y, m, dd) ==
    LET nm == norm(y, m - 1, 12)
        ny == nm[1]
        mo == nm[2] + 1
        e  == daysSinceEpoch(ny)
        d1 == e[2] + daysBefore(mo - 1)
        d2 == IF isLeap(ny) /\ mo >= March THEN d1 + 1 ELSE d1
        d3 == d2 + dd - 1
    IN  (e[1] - zeroCycles) * daysPer400Years + d3

\* uint64(d + internalToAbsolute), as <<n, r>> with 0 <= r < daysPer400Years.
abs(d) == <<zeroCycles + (d \div daysPer400Years), d % daysPer400Years>>

\* absDate without the n -= n >> 2 corrections
absDateNoCorrection(a, full) ==
    LET d0   == a[2]
        n100a == d0 \div daysPer100Years
        n100 == n100a
        d1   == d0 - daysPer100Years * n100
        n4   == d1 \div daysPer4Years
        d2   == d1 - daysPer4Years * n4
        n1a  == d2 \div 365
        n1   == n1a
        d3   == d2 - 365 * n1
        yr   == 400 * (a[1] - zeroCycles) + 100 * n100 + 4 * n4 + n1 + 1
        leapDay == isLeap(yr) /\ d3 = 31 + 29 - 1
        dy   == IF isLeap(yr) /\ d3 > 31 + 29 - 1 THEN d3 - 1 ELSE d3
        m0   == dy \div 31
        end  == daysBefore(m0 + 1)
        mo   == IF dy >= end THEN m0 + 1 ELSE m0
        begin == IF dy >= end THEN end ELSE daysBefore(m0)
    IN  IF ~full THEN [year |-> yr, month |-> 0, day |-> 0, yday |-> d3]
        ELSE IF leapDay THEN [year |-> yr, month |-> February, day |-> 29, yday |-> d3]
        ELSE [year |-> yr, month |-> mo + 1, day |-> dy - begin + 1, yday |-> d3]

absDate(a, full) ==
    LET d0   == a[2]
        n100a == d0 \div daysPer100Years
        n100 == n100a - (n100a \div 4)
        d1   == d0 - daysPer100Years * n100
        n4   == d1 \div daysPer4Years
        d2   == d1 - daysPer4Years * n4
        n1a  == d2 \div 365
        n1   == n1a - (n1a \div 4)
        d3   == d2 - 365 * n1
        yr   == 400 * (a[1] - zeroCycles) + 100 * n100 + 4 * n4 + n1 + 1
        leapDay == isLeap(yr) /\ d3 = 31 + 29 - 1
        dy   == IF isLeap(yr) /\ d3 > 31 + 29 - 1 THEN d3 - 1 ELSE d3
        m0   == dy \div 31
        end  == daysBefore(m0 + 1)
        mo   == IF dy >= end THEN m0 + 1 ELSE m0
        begin == IF dy >= end THEN end ELSE daysBefore(m0)
    IN  IF ~full THEN [year |-> yr, month |-> 0, day |-> 0, yday |-> d3]
        ELSE IF leapDay THEN [year |-> yr, month |-> February, day |-> 29, yday |-> d3]
        ELSE [year |-> yr, month |-> mo + 1, day |-> dy - begin + 1, yday |-> d3]

\* Date.Date, as <<year, month, day>>
Date(d) ==
    LET r == absDate(abs(d), TRUE) IN <<r.year, r.month, r.day>>

Year(d) == absDate(abs(d), FALSE).year

YearDay(d) == absDate(abs(d), FALSE).yday + 1

-----------------------------------------------------------------------------
(* Bytes and strings.  A string is a sequence of one-character strings;     *)
(* Ord gives a character's byte value, as the source compares bytes.        *)

\* The printable bytes 32..95 and 97..126
Ascii32 ==
    <<" ", "!", "\"", "#", "$", "%", "&", "'", "(", ")", "*", "+", ",", "-", ".", "/",
      "0", "1", "2", "3", "4", "5", "6", "7", "8", "9", ":", ";", "<", "=", ">", "?",
      "@", "A", "B", "C", "D", "E", "F", "G", "H", "I", "J", "K", "L", "M", "N", "O",
      "P", "Q", "R", "S", "T", "U", "V", "W", "X", "Y", "Z", "[", "\\", "]", "^", "_">>

Ascii97 ==
    <<"a", "b", "c", "d", "e", "f", "g", "h", "i", "j", "k", "l", "m", "n", "o",
      "p", "q", "r", "s", "t", "u", "v", "w", "x", "y", "z", "{", "|", "}", "~">>

OrdTable ==
    [c \in {Ascii32[i] : i \in 1..Len(Ascii32)} |->
        31 + (CHOOSE i \in 1..Len(Ascii32) : Ascii32[i] = c)]
    @@ [c \in {Ascii97[i] : i \in 1..Len(Ascii97)} |->
        96 + (CHOOSE i \in 1..Len(Ascii97) : Ascii97[i] = c)]

Ord(c) == OrdTable[c]

\* s[i:] and s[:i] of Go, with Go's 0-based offsets
From(s, i) == SubSeq(s, i + 1, Len(s))
Upto(s, i) == SubSeq(s, 1, i)

\* strings.CutPrefix reports ok exactly when HasPrefix holds
HasPrefix(s, prefix) ==
    Len(s) >= Len(prefix) /\ SubSeq(s, 1, Len(prefix)) = prefix

-----------------------------------------------------------------------------
(* format.go: name tables, instructions and the layout compiler *)

longDayNames ==
    << <<"S","u","n","d","a","y">>, <<"M","o","n","d","a","y">>,
       <<"T","u","e","s","d","a","y">>, <<"W","e","d","n","e","s","d","a","y">>,
       <<"T","h","u","r","s","d","a","y">>, <<"F","r","i","d","a","y">>,
       <<"S","a","t","u","r","d","a","y">> >>

shortDayNames ==
    << <<"S","u","n">>, <<"M","o","n">>, <<"T","u","e">>, <<"W","e","d">>,
       <<"T","h","u">>, <<"F","r","i">>, <<"S","a","t">> >>

shortMonthNames ==
    << <<"J","a","n">>, <<"F","e","b">>, <<"M","a","r">>, <<"A","p","r">>,
       <<"M","a","y">>, <<"J","u","n">>, <<"J","u","l">>, <<"A","u","g">>,
       <<"S","e","p">>, <<"O","c","t">>, <<"N","o","v">>, <<"D","e","c">> >>

longMonthNames ==
    << <<"J","a","n","u","a","r","y">>, <<"F","e","b","r","u","a","r","y">>,
       <<"M","a","r","c","h">>, <<"A","p","r","i","l">>, <<"M","a","y">>,
       <<"J","u","n","e">>, <<"J","u","l","y">>, <<"A","u","g","u","s","t">>,
       <<"S","e","p","t","e","m","b","e","r">>, <<"O","c","t","o","b","e","r">>,
       <<"N","o","v","e","m","b","e","r">>, <<"D","e","c","e","m","b","e","r">> >>

\* The operators with opDay moved to the front
fmtOpsDayFirst ==
    <<"opDay", "opLongMonth", "opMonth", "opLongWeekDay", "opWeekDay",
      "opZeroYearDay", "opZeroMonth", "opZeroDay", "opYear", "opNumMonth",
      "opLongYear", "opUnderLongYear", "opUnderDay", "opUnderYearDay">>

\* The operators from opLongMonth up to opInvalid, in the declared order,
\* which is the order nextOp tries them in.
fmtOps ==
    <<"opLongMonth", "opMonth", "opLongWeekDay", "opWeekDay", "opZeroYearDay",
      "opZeroMonth", "opZeroDay", "opYear", "opNumMonth", "opLongYear", "opDay",
      "opUnderLongYear", "opUnderDay", "opUnderYearDay">>

\* fmtOp.String
opString(op) ==
    CASE op = "opLiteral"       -> <<"<","l","i","t","e","r","a","l",">">>
      [] op = "opLongMonth"     -> <<"J","a","n","u","a","r","y">>
      [] op = "opMonth"         -> <<"J","a","n">>
      [] op = "opLongWeekDay"   -> <<"M","o","n","d","a","y">>
      [] op = "opWeekDay"       -> <<"M","o","n">>
      [] op = "opZeroYearDay"   -> <<"0","0","2">>
      [] op = "opZeroMonth"     -> <<"0","1">>
      [] op = "opZeroDay"       -> <<"0","2">>
      [] op = "opYear"          -> <<"0","6">>
      [] op = "opNumMonth"      -> <<"1">>
      [] op = "opLongYear"      -> <<"2","0","0","6">>
      [] op = "opDay"           -> <<"2">>
      [] op = "opUnderLongYear" -> <<"_","2","0","0","6">>
      [] op = "opUnderDay"      -> <<"_","2">>
      [] op = "opUnderYearDay"  -> <<"_","_","2">>

\* inst.String
instString(i) == IF i.op = "opLiteral" THEN i.lit ELSE opString(i.op)

\* No operator has to be a full word
endsWordNever(op) == FALSE

endsWord(op) == op = "opMonth" \/ op = "opWeekDay"

startsWithLowerCase(s) ==
    Len(s) > 0 /\ Ord("a") <= Ord(s[1]) /\ Ord(s[1]) <= Ord("z")

\* Whether nextOp's inner loop returns op for the layout from offset i on
opMatches(layout, i, op) ==
    /\ HasPrefix(From(layout, i), opString(op))
    /\ ~(endsWord(op) /\ startsWithLowerCase(From(layout, i + Len(opString(op)))))

\* nextOp, as <<prefix, op, suffix>>
nextOp(layout) ==
    LET hits == {i \in 0..(Len(layout) - 1) :
                    \E k \in 1..Len(fmtOps) : opMatches(layout, i, fmtOps[k])}
    IN  IF hits = {} THEN <<layout, "opLiteral", <<>> >>
        ELSE LET i  == CHOOSE h \in hits : \A g \in hits : h <= g
                 k  == CHOOSE a \in 1..Len(fmtOps) :
                          /\ opMatches(layout, i, fmtOps[a])
                          /\ \A b \in 1..(a - 1) : ~opMatches(layout, i, fmtOps[b])
                 op == fmtOps[k]
             IN  <<Upto(layout, i), op, From(layout, i + Len(opString(op)))>>

\* parseLayout without the test for an empty prefix
RECURSIVE parseLayoutAnyPrefix(_)
parseLayoutAnyPrefix(layout) ==
    IF Len(layout) = 0 THEN <<>>
    ELSE LET n   == nextOp(layout)
             ins == IF n[2] # "opLiteral" THEN <<[op |-> n[2], lit |-> <<>>]>> ELSE <<>>
         IN  <<[op |-> "opLiteral", lit |-> n[1]]>> \o ins \o parseLayoutAnyPrefix(n[3])

RECURSIVE parseLayout(_)
parseLayout(layout) ==
    IF Len(layout) = 0 THEN <<>>
    ELSE LET n   == nextOp(layout)
             lit == IF n[1] # <<>> THEN <<[op |-> "opLiteral", lit |-> n[1]]>> ELSE <<>>
             ins == IF n[2] # "opLiteral" THEN <<[op |-> n[2], lit |-> <<>>]>> ELSE <<>>
         IN  lit \o ins \o parseLayout(n[3])

-----------------------------------------------------------------------------
(* The layouts in use: the constants of format.go and those of the tests *)

Layout == <<"0","1","/","0","2"," ","'","0","6">>
RFC822 == <<"0","2"," ","J","a","n"," ","0","6">>
RFC1123 == <<"0","2"," ","J","a","n"," ","2","0","0","6">>
RFC3339 == <<"2","0","0","6","-","0","1","-","0","2">>

YearDayLayout == <<"2","0","0","6"," ","_","_","2">>
YmdYdayLayouts == { <<"2","0","0","6","-","0","1","-","0","2"," ","0","0","2">>, <<"0","0","2"," ","2","0","0","6","-","0","1","-","0","2">>, <<"0","2"," ","0","0","2"," ","2","0","0","6"," ","1">> }

\* The (layout, value) pairs of TestParse
tcsParse ==
    {
      <<<<"0","2"," ","J","a","n"," ","0","6">>, <<"0","2"," ","J","a","n"," ","0","6">>>>,
      <<<<"0","2"," ","J","a","n"," ","2","0","0","6">>, <<"0","2"," ","J","a","n"," ","2","0","0","6">>>>,
      <<<<"2","0","0","6","-","0","1","-","0","2">>, <<"2","0","0","6","-","0","1","-","0","2">>>>,
      <<<<"2","0","0","6","-","0","1","-","0","2">>, <<"2","0","2","3","-","1","0","-","3","1">>>>,
      <<<<"2","0","0","6","-","0","1","-","0","2">>, <<"2","0","2","3"," ","1","0"," ","3","1">>>>,
      <<<<>>, <<>>>>,
      <<<<"0","6">>, <<"1">>>>,
      <<<<"0","6">>, <<"f","o","o">>>>,
      <<<<"0","6">>, <<"6","9">>>>,
      <<<<"0","6">>, <<"2","3">>>>,
      <<<<"2","0","0","6">>, <<"1">>>>,
      <<<<"2","0","0","6">>, <<"f","o","o","b","a","r">>>>,
      <<<<"J","a","n">>, <<"F">>>>,
      <<<<"J","a","n">>, <<"f","o","o">>>>,
      <<<<"J","a","n">>, <<"F","e","b">>>>,
      <<<<"J","a","n">>, <<"f","E","b">>>>,
      <<<<"J","a","n","u","a","r","y">>, <<"F","e","b">>>>,
      <<<<"J","a","n","u","a","r","y">>, <<"A","v","i","a","r","y">>>>,
      <<<<"J","a","n","u","a","r","y">>, <<"F","e","b","r","u","a","r","y">>>>,
      <<<<"J","a","n","u","a","r","y">>, <<"F","e","B","r","U","a","R","y">>>>,
      <<<<"1">>, <<>>>>,
      <<<<"1">>, <<"x">>>>,
      <<<<"1">>, <<"2">>>>,
      <<<<"1">>, <<"1","2">>>>,
      <<<<"1">>, <<"0","2">>>>,
      <<<<"1">>, <<"1","3">>>>,
      <<<<"1">>, <<"0">>>>,
      <<<<"0","1">>, <<"x">>>>,
      <<<<"0","1">>, <<"x","x">>>>,
      <<<<"0","1">>, <<"2">>>>,
      <<<<"0","1">>, <<"1","2">>>>,
      <<<<"0","1">>, <<"0","2">>>>,
      <<<<"M","o","n">>, <<"T">>>>,
      <<<<"M","o","n">>, <<"f","o","o">>>>,
      <<<<"M","o","n">>, <<"T","u","e">>>>,
      <<<<"M","o","n">>, <<"T","u","E">>>>,
      <<<<"M","o","n","d","a","y">>, <<"T">>>>,
      <<<<"M","o","n","d","a","y">>, <<"f","o","o","b","a","r">>>>,
      <<<<"M","o","n","d","a","y">>, <<"T","u","e","s","d","a","y">>>>,
      <<<<"M","o","n","d","a","y">>, <<"T","u","E","s","D","a","Y">>>>,
      <<<<"2">>, <<>>>>,
      <<<<"2">>, <<"x">>>>,
      <<<<"2">>, <<"3">>>>,
      <<<<"2">>, <<"0","3">>>>,
      <<<<"2">>, <<"3","1">>>>,
      <<<<"2">>, <<"3","2">>>>,
      <<<<"2">>, <<"0">>>>,
      <<<<"0","2">>, <<"x">>>>,
      <<<<"0","2">>, <<"x","x">>>>,
      <<<<"0","2">>, <<"3">>>>,
      <<<<"0","2">>, <<"0","3">>>>,
      <<<<"0","2">>, <<"3","1">>>>,
      <<<<"0","2">>, <<"3","2">>>>,
      <<<<"_","2">>, <<"x">>>>,
      <<<<"_","2">>, <<"x","x">>>>,
      <<<<"_","2">>, <<"3">>>>,
      <<<<"_","2">>, <<" ","3">>>>,
      <<<<"_","2">>, <<" "," ","3">>>>,
      <<<<"_","2">>, <<"0","3">>>>,
      <<<<"_","2">>, <<"3","1">>>>,
      <<<<"_","2">>, <<"3","2">>>>,
      <<<<"0","0","2">>, <<"x">>>>,
      <<<<"0","0","2">>, <<"x","x">>>>,
      <<<<"0","0","2">>, <<"3">>>>,
      <<<<"0","0","2">>, <<"0","3">>>>,
      <<<<"0","0","2">>, <<"0","0","3">>>>,
      <<<<"0","0","2">>, <<"0","5","0">>>>,
      <<<<"0","0","2">>, <<"2","9","8">>>>,
      <<<<"_","_","2">>, <<"x">>>>,
      <<<<"_","_","2">>, <<"x","x">>>>,
      <<<<"_","_","2">>, <<"3">>>>,
      <<<<"_","_","2">>, <<" ","3">>>>,
      <<<<"_","_","2">>, <<" "," ","3">>>>,
      <<<<"_","_","2">>, <<" "," "," ","3">>>>,
      <<<<"_","_","2">>, <<"0","3">>>>,
      <<<<"_","_","2">>, <<" ","0","3">>>>,
      <<<<"_","_","2">>, <<" "," ","0","3">>>>,
      <<<<"_","_","2">>, <<" "," ","0","0","3">>>>,
      <<<<"_","_","2">>, <<" "," "," ","0","3">>>>,
      <<<<"_","_","2">>, <<"0","0","3">>>>,
      <<<<"_","_","2">>, <<"0","5","0">>>>,
      <<<<"_","_","2">>, <<"2","9","8">>>>,
      <<<<"2","0","0","6","-","0","1","-","0","2">>, <<"2","0","0","6","-","0","1","-","0","2","f","o","o">>>>,
      <<<<"2","0","0","6","-","0","1","-","0","2"," ","0","0","2">>, <<"2","0","2","3","-","1","0","-","2","5"," ","1","0","0">>>>,
      <<<<"2","0","0","6","-","0","1","-","0","2"," ","0","0","2">>, <<"2","0","2","3","-","1","0","-","2","5"," ","3","0","0">>>>,
      <<<<"2","0","0","6","-","0","1","-","0","2"," ","0","0","2">>, <<"2","0","2","3","-","1","0","-","2","5"," ","2","9","8">>>>,
      <<<<"2","0","0","6","-","0","1","-","0","2"," ","0","0","2">>, <<"2","0","2","4","-","1","0","-","2","5"," ","2","9","9">>>>,
      <<<<"0","0","2">>, <<"0">>>>,
      <<<<"2","0","0","6"," ","_","_","2">>, <<"2","0","2","3"," ","3","6","6">>>>,
      <<<<"2","0","0","6"," ","_","_","2">>, <<"2","0","2","4"," ","3","6","6">>>>,
      <<<<"2","0","0","6"," ","_","_","2">>, <<"2","0","2","3"," ","6","0">>>>,
      <<<<"2","0","0","6"," ","_","_","2">>, <<"2","0","2","4"," ","6","0">>>>,
      <<<<" "," "," ","2","0","0","6">>, <<" ","2","0","2","3">>>>
    }

\* Every operator's token
TokenLayouts == {opString(fmtOps[k]) : k \in 1..Len(fmtOps)}

\* Layouts with one numeric month token, each with input that matches the
\* instructions before that token, and whether the token is "01"
MonthLayouts ==
    { [layout |-> <<"1">>, before |-> <<>>, fixed |-> FALSE],
      [layout |-> <<"0","1">>, before |-> <<>>, fixed |-> TRUE],
      [layout |-> <<"2","0","0","6","-","0","1","-","0","2">>, before |-> <<"2","0","2","4","-">>, fixed |-> TRUE],
      [layout |-> <<"0","1","/","0","2"," ","'","0","6">>, before |-> <<>>, fixed |-> TRUE],
      [layout |-> <<"2"," ","1"," ","2","0","0","6">>, before |-> <<"3","1"," ">>, fixed |-> FALSE],
      [layout |-> <<"M","o","n","d","a","y"," ","0","2",".","0","1",".">>, before |-> <<"F","r","i","d","a","y"," ","3","0",".">>, fixed |-> TRUE] }

\* The layouts the calls below use
KnownLayouts ==
    {Layout, RFC822, RFC1123, RFC3339, YearDayLayout}
    \cup YmdYdayLayouts \cup TokenLayouts
    \cup {t[1] : t \in tcsParse} \cup {l.layout : l \in MonthLayouts}

\* memo, the cache of compiled layouts, holding the layouts in use
memo == [l \in KnownLayouts |-> parseLayout(l)]

\* memo.Get(layout, parseLayout): the cached value, or else what fill returns
memoGet(layout) ==
    IF layout \in DOMAIN memo THEN memo[layout] ELSE parseLayout(layout)

-----------------------------------------------------------------------------
(* format.go: the parser *)

isDigit(s, i) ==
    Len(s) > i /\ Ord("0") <= Ord(s[i + 1]) /\ Ord(s[i + 1]) <= Ord("9")

\* The decimal value of a string of digits
RECURSIVE DecVal(_)
DecVal(s) ==
    IF Len(s) = 0 THEN 0
    ELSE DecVal(Upto(s, Len(s) - 1)) * 10 + (Ord(s[Len(s)]) - Ord("0"))

\* strconv.Atoi on a short string: an optional sign, then one or more digits
Atoi(s) ==
    LET signed == Len(s) > 0 /\ (s[1] = "-" \/ s[1] = "+")
        digs   == IF signed THEN Tail(s) ELSE s
        ok     == Len(digs) > 0 /\ \A k \in 0..(Len(digs) - 1) : isDigit(digs, k)
    IN  IF ~ok THEN [ok |-> FALSE, v |-> 0]
        ELSE [ok |-> TRUE, v |-> IF s[1] = "-" THEN -DecVal(digs) ELSE DecVal(digs)]

\* c | ('a' - 'A') on a byte
OrCaseBit(n) == IF (n \div 32) % 2 = 0 THEN n + 32 ELSE n

\* match without the folding of letter case
matchExact(s1, s2) == \A k \in 1..Len(s1) : s1[k] = s2[k]

match(s1, s2) ==
    \A k \in 1..Len(s1) :
        \/ s1[k] = s2[k]
        \/ LET c1 == OrCaseBit(Ord(s1[k]))
               c2 == OrCaseBit(Ord(s2[k]))
           IN  c1 = c2 /\ c1 >= Ord("a") /\ c1 <= Ord("z")

\* A message of a ParseError: fixed text, then a quoted string (or nothing)
Msg(text) == [text |-> text, quoted |-> <<>>]

\* strconv.Quote on printable ASCII
RECURSIVE Escape(_)
Escape(s) ==
    IF Len(s) = 0 THEN <<>>
    ELSE (IF s[1] = "\"" \/ s[1] = "\\" THEN <<"\\", s[1]>> ELSE <<s[1]>>)
         \o Escape(Tail(s))

Quote(s) == <<"\"">> \o Escape(s) \o <<"\"">>

newParser(value) ==
    [inst |-> [op |-> "opLiteral", lit |-> <<>>], hasErr |-> FALSE,
     value |-> value, valEl |-> <<>>, errMsg |-> ""]

setInst(p, i) == [p EXCEPT !.inst = i, !.valEl = p.value]

finish(p) == [p EXCEPT !.inst = [op |-> "opInvalid", lit |-> <<>>], !.valEl = <<>>]

parseFailed(p) == [p EXCEPT !.hasErr = TRUE]

\* parser.err filling LayoutElem and ValueElem whatever the message
errWithElems(p, layout, value, msg) ==
    <<[Layout |-> layout, Value |-> value, LayoutElem |-> layout,
       ValueElem |-> p.valEl, Message |-> msg]>>

\* parser.err: the error value returned, a one-element sequence (nil is <<>>)
err(p, layout, value, msg) ==
    IF msg = Msg("")
    THEN <<[Layout |-> layout, Value |-> value, LayoutElem |-> instString(p.inst),
            ValueElem |-> p.valEl, Message |-> msg]>>
    ELSE <<[Layout |-> layout, Value |-> value, LayoutElem |-> <<>>,
            ValueElem |-> <<>>, Message |-> msg]>>

skipByte(p, b) ==
    IF Len(p.value) > 0 /\ p.value[1] = b THEN [p EXCEPT !.value = Tail(p.value)]
    ELSE p

\* The number of leading bytes b of s
RECURSIVE Run(_, _)
Run(s, b) == IF Len(s) > 0 /\ s[1] = b THEN 1 + Run(Tail(s), b) ELSE 0

trimByte(p, b) == [p EXCEPT !.value = From(p.value, Run(p.value, b))]

\* accept matching a space of the literal like any other byte
RECURSIVE acceptExact(_, _)
acceptExact(p, lit) ==
    IF Len(lit) = 0 THEN p
    ELSE IF p.value = <<>> \/ p.value[1] # lit[1] THEN parseFailed(p)
    ELSE acceptExact([p EXCEPT !.value = Tail(p.value)], Tail(lit))

RECURSIVE accept(_, _)
accept(p, lit) ==
    IF Len(lit) = 0 THEN p
    ELSE IF lit[1] = " "
         THEN IF p.value # <<>> /\ p.value[1] # " " THEN parseFailed(p)
              ELSE accept(trimByte(p, " "), From(lit, Run(lit, " ")))
    ELSE IF p.value = <<>> \/ p.value[1] # lit[1] THEN parseFailed(p)
    ELSE accept([p EXCEPT !.value = Tail(p.value)], Tail(lit))

\* atoi, getnumN, num, num3 and lookup return the parser and the value: [p, v]
atoiDigitsOnly(p, i) ==
    IF Len(p.value) < i \/ \E k \in 0..(i - 1) : ~isDigit(p.value, k)
    THEN [p |-> parseFailed(p), v |-> 0]
    ELSE [p |-> [p EXCEPT !.value = From(p.value, i)], v |-> DecVal(Upto(p.value, i))]

atoi(p, i) ==
    IF Len(p.value) < i THEN [p |-> parseFailed(p), v |-> 0]
    ELSE LET a == Atoi(Upto(p.value, i))
         IN  IF ~a.ok THEN [p |-> parseFailed(p), v |-> 0]
             ELSE [p |-> [p EXCEPT !.value = From(p.value, i)], v |-> a.v]

getnumN(p, N, fixed) ==
    LET stops == {k \in 0..N : k = N \/ ~isDigit(p.value, k)}
        i     == CHOOSE k \in stops : \A j \in stops : k <= j
    IN  IF i = 0 \/ (fixed /\ i # N) THEN [p |-> parseFailed(p), v |-> 0]
        ELSE [p |-> [p EXCEPT !.value = From(p.value, i)],
              v |-> DecVal(Upto(p.value, i))]

num(p, fixed) == getnumN(p, 2, fixed)

num3(p, fixed) == getnumN(p, 3, fixed)

peekDigit(p) == IF ~isDigit(p.value, 0) THEN parseFailed(p) ELSE p

lookup(p, table) ==
    LET hits == {k \in 1..Len(table) :
                    /\ Len(p.value) >= Len(table[k])
                    /\ match(Upto(p.value, Len(table[k])), table[k])}
    IN  IF hits = {} THEN [p |-> parseFailed(p), v |-> 0]
        ELSE LET k == CHOOSE h \in hits : \A g \in hits : h <= g
             IN  [p |-> [p EXCEPT !.value = From(p.value, Len(table[k]))], v |-> k - 1]

\* Parse's return values: the Date and the error (<<>> is nil)
Failure(e) == [date |-> 0, err |-> e]

\* The century of a two-digit year (opYear)
twoDigitYearAbove69(v) == IF v > 69 THEN v + 1900 ELSE v + 2000

twoDigitYear(v) == IF v >= 69 THEN v + 1900 ELSE v + 2000

\* The range test of a numeric month (opNumMonth, opZeroMonth)
monthOutOfRange(month) == month <= 0 \/ 12 < month

\* The assignments of Parse's instruction cases, from what the parser's
\* method returned (a.p is the parser afterwards, a.v the returned value)
yearRead(st, a) == [st EXCEPT !.p = a.p, !.year = a.v]

shortYearRead(st, a) == [st EXCEPT !.p = a.p, !.year = twoDigitYear(a.v)]

monthNameRead(st, a) == [st EXCEPT !.p = a.p, !.month = a.v + 1]

monthRead(st, a) ==
    IF monthOutOfRange(a.v)
    THEN [st EXCEPT !.p = a.p, !.month = a.v,
            !.out = <<Failure(err(a.p, st.layout, st.value,
                                  Msg("month out of range")))>>]
    ELSE [st EXCEPT !.p = a.p, !.month = a.v]

dayRead(st, a) == [st EXCEPT !.p = a.p, !.day = a.v]

ydayRead(st, a) == [st EXCEPT !.p = a.p, !.yday = a.v]

\* The switch of Parse's instruction loop, p being the parser after setInst
execCase(st, p, i) ==
    CASE i.op = "opLiteral" -> [st EXCEPT !.p = accept(p, i.lit)]
      [] i.op = "opYear" -> shortYearRead(st, atoi(p, 2))
      [] i.op = "opUnderLongYear" ->
            yearRead(st, atoi(peekDigit(accept(p, <<"_">>)), 4))
      [] i.op = "opLongYear" -> yearRead(st, atoi(peekDigit(p), 4))
      [] i.op = "opMonth" -> monthNameRead(st, lookup(p, shortMonthNames))
      [] i.op = "opLongMonth" -> monthNameRead(st, lookup(p, longMonthNames))
      [] i.op = "opNumMonth" -> monthRead(st, num(p, FALSE))
      [] i.op = "opZeroMonth" -> monthRead(st, num(p, TRUE))
      [] i.op = "opWeekDay" -> [st EXCEPT !.p = lookup(p, shortDayNames).p]
      [] i.op = "opLongWeekDay" -> [st EXCEPT !.p = lookup(p, longDayNames).p]
      [] i.op = "opUnderDay" -> dayRead(st, num(skipByte(p, " "), FALSE))
      [] i.op = "opDay" -> dayRead(st, num(p, FALSE))
      [] i.op = "opZeroDay" -> dayRead(st, num(p, TRUE))
      [] i.op = "opUnderYearDay" ->
            ydayRead(st, num3(skipByte(skipByte(p, " "), " "), FALSE))
      [] i.op = "opZeroYearDay" -> ydayRead(st, num3(p, TRUE))
      [] OTHER ->
            [st EXCEPT !.p = p, !.out = <<Failure(err(p, st.layout, st.value,
                                                     Msg("panic: invalid inst")))>>]

\* One iteration of Parse's instruction loop up to, not including, the check
\* of p.hasErr.  st holds Parse's local variables; st.out is <<>> until a
\* return statement is reached and then holds the returned values.
execInst(st, i) == execCase(st, setInst(st.p, i), i)

RECURSIVE execProg(_, _, _)

\* The end of iteration k of the loop, s1 being the variables after its switch
checkErr(s1, prog, k) ==
    IF s1.out # <<>> THEN s1
    ELSE IF s1.p.hasErr
         THEN [s1 EXCEPT !.out =
                   <<Failure(err(s1.p, s1.layout, s1.value, Msg("")))>>]
    ELSE execProg(s1, prog, k + 1)

\* Parse's instruction loop from instruction k on
execProg(st, prog, k) ==
    IF k > Len(prog) THEN st
    ELSE checkErr(execInst(st, prog[k]), prog, k)

\* Parse's reading of a day of the year (yday >= 0): whether it is in range,
\* the month and day it falls on, and the indices it read daysBefore at
ydayDateNoLeap(year, yday) ==
    LET m0 == ((yday - 1) \div 31) + 1
        m  == IF daysBefore(m0) < yday THEN m0 + 1 ELSE m0
    IN  IF yday < 1 \/ yday > 365 THEN [ok |-> FALSE, m |-> 0, d |-> 0, idx |-> {}]
        ELSE [ok |-> TRUE, m |-> m, d |-> yday - daysBefore(m - 1),
              idx |-> {m0, m - 1}]

ydayDate(year, yday) ==
    LET leap == isLeap(year)
        yd   == IF leap /\ yday > 31 + 29 THEN yday - 1 ELSE yday
        m0   == ((yd - 1) \div 31) + 1
        m    == IF daysBefore(m0) < yd THEN m0 + 1 ELSE m0
    IN  IF yd < 1 \/ yd > 365 THEN [ok |-> FALSE, m |-> 0, d |-> 0, idx |-> {}]
        ELSE IF leap /\ yday = 31 + 29
        THEN [ok |-> TRUE, m |-> February, d |-> 29, idx |-> {}]
        ELSE [ok |-> TRUE, m |-> m, d |-> yd - daysBefore(m - 1),
              idx |-> {m0, m - 1}]

\* Parse's failure with a message, p being the parser after finish
invalid(st, p, text) ==
    [st EXCEPT !.p = p,
               !.out = <<Failure(err(p, st.layout, st.value, Msg(text)))>>]

\* The end of Parse: the defaults of month and day, the check of the day
\* against the month, and the result; daysIn is recorded as called with month
result(st, p, month, day) ==
    IF day < 1 \/ day > daysIn(month, st.year)
    THEN invalid([st EXCEPT !.month = month, !.day = day, !.daysInOf = {month}],
                 p, "day out of range")
    ELSE [st EXCEPT !.p = p, !.month = month, !.day = day, !.daysInOf = {month},
                    !.out = <<[date |-> Of(st.year, month, day), err |-> <<>>]>>]

\* The validation of the day of the year, md being the date it falls on
validateYday(st, p, md) ==
    IF st.yday >= 0
    THEN IF ~md.ok
         THEN invalid(st, p, "day-of-year out of range")
         ELSE IF st.month >= 0 /\ st.month # md.m
         THEN invalid([st EXCEPT !.daysBeforeAt = md.idx], p,
                      "day-of-year does not match month")
         ELSE IF st.day >= 0 /\ st.day # md.d
         THEN invalid([st EXCEPT !.daysBeforeAt = md.idx], p,
                      "day-of-year does not match day")
         ELSE result([st EXCEPT !.daysBeforeAt = md.idx], p, md.m, md.d)
    ELSE result(st, p, IF st.month < 0 THEN January ELSE st.month,
                       IF st.day < 0 THEN 1 ELSE st.day)

\* The check for left-over input applied to a finished validation
validateLeftOver(st) ==
    IF st.out[1].err # <<>> THEN st
    ELSE IF Len(st.p.value) > 0
    THEN [st EXCEPT !.out = <<Failure(err(st.p, st.layout, st.value,
                [text |-> "extra text: ", quoted |-> Quote(st.p.value)]))>>]
    ELSE st

\* Parse after the loop with the validation ahead of the check for left-over
\* input
validateRangeFirst(st) ==
    IF st.out # <<>> THEN st
    ELSE validateLeftOver(validateYday(st, st.p, ydayDate(st.year, st.yday)))

\* Parse after the loop: the check for left-over input and the validation
validate(st) ==
    IF st.out # <<>> THEN st
    ELSE IF Len(st.p.value) > 0
    THEN [st EXCEPT !.out = <<Failure(err(st.p, st.layout, st.value,
                [text |-> "extra text: ", quoted |-> Quote(st.p.value)]))>>]
    ELSE validateYday(st, finish(st.p), ydayDate(st.year, st.yday))

\* Parse: its local variables at the return statement it reaches, with the
\* indices it has read daysBefore at and the months it has called daysIn with
ParseVars(layout, value) ==
    validate(execProg([p |-> newParser(value), layout |-> layout, value |-> value,
                       year |-> 0, month |-> -1, day |-> -1, yday |-> -1,
                       daysBeforeAt |-> {}, daysInOf |-> {}, out |-> <<>>],
                      memoGet(layout), 1))

Parse(layout, value) == ParseVars(layout, value).out[1]

-----------------------------------------------------------------------------
(* format.go: the formatter *)

\* Go's % on int: the remainder has the sign of the dividend
GoMod(a, b) == a - GoDiv(a, b) * b

\* strconv.AppendInt(b, n, 10) appends Itoa(n)
RECURSIVE Itoa(_)
Itoa(n) ==
    IF n < 0 THEN <<"-">> \o Itoa(-n)
    ELSE IF n < 10 THEN <<Ascii32[17 + n]>>
    ELSE Itoa(n \div 10) \o <<Ascii32[17 + (n % 10)]>>

\* Weekday counting from a Sunday at day 0
WeekdayFromSunday(d) == d % 7

\* Date.Weekday: (time.Monday + Weekday(d.abs())) % 7 on the pair <<n, r>>
Weekday(d) ==
    LET a == abs(d)
    IN  (1 + (a[1] % 7) * (daysPer400Years % 7) + a[2]) % 7

\* The two-digit year with the remainder of a floored division
shortYearFloored(year) == year % 100

\* opYear's number: int64(year) % 100, negated when negative
shortYear(year) ==
    IF GoMod(year, 100) < 0 THEN -GoMod(year, 100) ELSE GoMod(year, 100)

\* What one instruction of AppendFormat's loop appends
formatInst(i, d, a) ==
    LET yday == a.yday + 1
        y2a  == shortYear(a.year)
        ya   == IF a.year < 0 THEN -a.year ELSE a.year
        longYear ==
            (IF a.year < 0 THEN <<"-">> ELSE <<>>)
            \o (IF ya < 1000 THEN <<"0">> ELSE <<>>)
            \o (IF ya < 100 THEN <<"0">> ELSE <<>>)
            \o (IF ya < 10 THEN <<"0">> ELSE <<>>)
            \o Itoa(ya)
        pad2(n, c) == (IF n < 10 THEN <<c>> ELSE <<>>) \o Itoa(n)
        pad3(n, c) == (IF n < 100 THEN (IF n < 10 THEN <<c, c>> ELSE <<c>>) ELSE <<>>)
                      \o Itoa(n)
    IN  CASE i.op = "opLiteral"       -> i.lit
          [] i.op = "opYear"          -> pad2(y2a, "0")
          [] i.op = "opUnderLongYear" -> <<"_">> \o longYear
          [] i.op = "opLongYear"      -> longYear
          [] i.op = "opMonth"         -> Upto(longMonthNames[a.month], 3)
          [] i.op = "opLongMonth"     -> longMonthNames[a.month]
          [] i.op = "opNumMonth"      -> Itoa(a.month)
          [] i.op = "opZeroMonth"     -> pad2(a.month, "0")
          [] i.op = "opWeekDay"       -> Upto(longDayNames[Weekday(d) + 1], 3)
          [] i.op = "opLongWeekDay"   -> longDayNames[Weekday(d) + 1]
          [] i.op = "opDay"           -> Itoa(a.day)
          [] i.op = "opUnderDay"      -> pad2(a.day, " ")
          [] i.op = "opZeroDay"       -> pad2(a.day, "0")
          [] i.op = "opUnderYearDay"  -> pad3(yday, " ")
          [] i.op = "opZeroYearDay"   -> pad3(yday, "0")
          [] OTHER                    -> <<"panic: invalid inst">>

RECURSIVE formatProg(_, _, _, _)
formatProg(prog, k, d, a) ==
    IF k > Len(prog) THEN <<>>
    ELSE formatInst(prog[k], d, a) \o formatProg(prog, k + 1, d, a)

AppendFormat(b, d, layout) ==
    b \o formatProg(memoGet(layout), 1, d, absDate(abs(d), TRUE))

Format(d, layout) == AppendFormat(<<>>, d, layout)

\* Date.String
String(d) == Format(d, RFC3339)

MarshalText(d) == String(d)

\* UnmarshalText on a receiver holding recv: the receiver afterwards, and the error
assign(recv, r) == [d |-> IF r.err = <<>> THEN r.date ELSE recv, err |-> r.err]

UnmarshalText(recv, b) == assign(recv, Parse(RFC3339, b))

-----------------------------------------------------------------------------
(* The calling program of date_test.go's check: Of, then Date, then Of again *)

YearSpan == 2
MonthSpan == 13
DaySpan == 32
DateSpan == 146100

YearCentres == {-400, -100, -4, 0, 4, 100, 400, 1900, 2000, 2023}

ArgYears == UNION {(c - YearSpan)..(c + YearSpan) : c \in YearCentres}
ArgMonths == (1 - MonthSpan)..(12 + MonthSpan)
ArgDays == (1 - DaySpan)..(31 + DaySpan)

\* tcs of date_test.go
tcs ==
    { <<1, 1, 1>>, <<2, 1, 1>>, <<3, 1, 1>>, <<4, 1, 1>>, <<5, 1, 1>>,
      <<1, 3, 1>>, <<2, 3, 1>>, <<3, 3, 1>>, <<4, 3, 1>>, <<5, 3, 1>>,
      <<1, 1, 31>>, <<1, 2, 1>>, <<1, 1, 32>>, <<1, 1, 0>>, <<0, 12, 31>>,
      <<1957, 96, 104>>, <<1964, 12, 104>>, <<2023, 7, 14>>,
      <<2023, 12, 40>>, <<2024, 1, 9>> }

ArgTriples == tcs \cup (ArgYears \X ArgMonths \X ArgDays)

InitDate ==
    \/ /\ pc = "Of"
       /\ \E t \in ArgTriples :
            call = [fn |-> "Of", year |-> t[1], month |-> t[2], day |-> t[3]]
       /\ ret = [d |-> 0]
    \/ /\ pc = "Date"
       /\ call = [fn |-> "Date"]
       /\ \E d \in (-DateSpan)..DateSpan : ret = [d |-> d]

DoOf ==
    /\ pc = "Of"
    /\ ret' = [d |-> Of(call.year, call.month, call.day)]
    /\ pc' = IF call.fn = "Of" THEN "Date" ELSE "MarshalText"
    /\ UNCHANGED call

DoDate ==
    /\ pc = "Date"
    /\ ret' = [d |-> ret.d, ymd |-> Date(ret.d)]
    /\ pc' = "OfAgain"
    /\ UNCHANGED call

DoOfAgain ==
    /\ pc = "OfAgain"
    /\ ret' = [d |-> ret.d, ymd |-> ret.ymd,
               d2 |-> Of(ret.ymd[1], ret.ymd[2], ret.ymd[3])]
    /\ pc' = "checked"
    /\ UNCHANGED call

NextDate == DoOf \/ DoDate \/ DoOfAgain

SpecDate == InitDate /\ [][NextDate]_vars

ValidTriple(y, m, dd) == m \in 1..12 /\ 1 <= dd /\ dd <= daysIn(m, y)

\* C1: Of and Date are mutually inverse.  For a valid triple (1 <= m <= 12,
\* 1 <= day <= daysIn(m, y)), Of(y, m, day).Date() is that triple; and for
\* every Date d, negative ones included, d.Date() is a valid triple whose Of
\* is d again.
C1_OfDateInverse ==
    /\ (pc \in {"OfAgain", "checked"} /\ call.fn = "Of"
            /\ ValidTriple(call.year, call.month, call.day))
        => ret.ymd = <<call.year, call.month, call.day>>
    /\ pc \in {"OfAgain", "checked"}
        => ValidTriple(ret.ymd[1], ret.ymd[2], ret.ymd[3])
    /\ pc = "checked" => ret.d2 = ret.d

\* A negative Date that is a February 29 has been decomposed and rebuilt.
C1_Witness ==
    /\ pc = "checked" /\ call.fn = "Date" /\ ret.d < 0
    /\ ret.ymd[2] = February /\ ret.ymd[3] = 29

\* C2: Of normalizes out-of-range months and days in closed form:
\* Of(y, m, d) = Of(y + floor((m-1)/12), ((m-1) mod 12) + 1, 1) + (d - 1),
\* with Of(2023,12,40) = Of(2024,1,9), Of(1,1,0) = Of(0,12,31) = -1 and
\* Of(1957,96,104) = Of(1964,12,104) = 717408.
C2_OfNormalizes ==
    (pc # "Of" /\ call.fn = "Of") =>
        LET t == <<call.year, call.month, call.day>> IN
        /\ ret.d = Of(call.year + ((call.month - 1) \div 12),
                      ((call.month - 1) % 12) + 1, 1) + (call.day - 1)
        /\ t \in {<<2023, 12, 40>>, <<2024, 1, 9>>} => ret.d = 738893
        /\ t \in {<<1, 1, 0>>, <<0, 12, 31>>} => ret.d = -1
        /\ t \in {<<1957, 96, 104>>, <<1964, 12, 104>>} => ret.d = 717408

\* Of has normalized a month below 1 together with a day below 1.
C2_Witness ==
    pc = "Date" /\ call.fn = "Of" /\ call.month < 0 /\ call.day < 0

-----------------------------------------------------------------------------
(* Calls of Parse: TestParse, FuzzParse and ExampleParse *)

\* What a call of Parse hands back, with the parser it ended in
returned(st) ==
    [date |-> st.out[1].date, err |-> st.out[1].err, p |-> st.p,
     daysBeforeAt |-> st.daysBeforeAt, daysInOf |-> st.daysInOf]

DoParse ==
    /\ pc = "Parse"
    /\ ret' = returned(ParseVars(call.layout, call.value))
    /\ pc' = "parsed"
    /\ UNCHANGED call

NextParse == DoParse

\* n in decimal, filled with zeros to w characters
Pad(n, w) == [k \in 1..(w - Len(Itoa(n))) |-> "0"] \o Itoa(n)

\* All strings over alphabet of length at most n
RECURSIVE Strings(_, _)
Strings(alphabet, n) ==
    IF n = 0 THEN {<<>>}
    ELSE LET shorter == Strings(alphabet, n - 1)
         IN  shorter \cup {Append(x, c) : x \in shorter, c \in alphabet}

ParseCall(family, layout, value, args) ==
    [fn |-> "Parse", family |-> family, layout |-> layout, value |-> value,
     args |-> args]

InitParse ==
    /\ pc = "Parse"
    /\ ret = [date |-> 0]

RawLen == 3
RawAlphabet == {"0", "1", "6", "9", "+", "-", " ", "x"}

\* Two-digit years NN = 00..99 under the layout "06"
YearCalls ==
    \E n \in 0..99 :
        call = ParseCall("yy", opString("opYear"), Pad(n, 2), [nn |-> n])

\* What follows the month's digits in the input
MonthRests ==
    { <<>>, <<"-","0","1">>, <<"x">>, <<" ","5">>, <<"/","0","2"," ","'","2","4">>, <<" ","2","0","2","4">>, <<".">> }

\* The month v written with w digits; a one-digit month only for the token "1"
MonthCalls ==
    \E l \in MonthLayouts, v \in 0..99, w \in 1..2, rest \in MonthRests :
        /\ l.fixed => w = 2
        /\ Len(Itoa(v)) <= w
        /\ call = ParseCall("month", l.layout, l.before \o Pad(v, w) \o rest,
                            [month |-> v])

TableCalls ==
    \E t \in tcsParse : call = ParseCall("table", t[1], t[2], <<>>)

RawCalls ==
    \E l \in TokenLayouts, v \in Strings(RawAlphabet, RawLen) :
        call = ParseCall("raw", l, v, <<>>)

InitParseTable ==
    InitParse /\ (TableCalls \/ RawCalls \/ YearCalls \/ MonthCalls)

SpecParseTable == InitParseTable /\ [][NextParse]_vars

DigitChars == {"0", "1", "2", "3", "4", "5", "6", "7", "8", "9"}

\* The returned error is the syntactic kind: no message, the failing layout
\* element and the input from that element on
SyntaxError(r, c, elem, valueElem) ==
    /\ r.date = 0
    /\ r.err = <<[Layout |-> c.layout, Value |-> c.value, LayoutElem |-> elem,
                  ValueElem |-> valueElem, Message |-> Msg("")]>>

\* The returned error is the semantic kind with the given message
RangeError(r, c, text) ==
    /\ r.date = 0
    /\ r.err = <<[Layout |-> c.layout, Value |-> c.value, LayoutElem |-> <<>>,
                  ValueElem |-> <<>>, Message |-> Msg(text)]>>

\* C5: every syntactic mismatch is reported as the syntactic error kind:
\* whenever an instruction's input does not match its shape (the parser's
\* parseFailed was signalled), Parse returns an error with an empty Message
\* whose LayoutElem is that instruction's token and whose ValueElem is the
\* input at the start of that instruction; a Message is returned only when
\* no instruction failed to match.
C5_MismatchIsSyntactic ==
    pc = "parsed" =>
        /\ ret.p.hasErr =>
              SyntaxError(ret, call, instString(ret.p.inst), ret.p.valEl)
        /\ (ret.err # <<>> /\ ret.err[1].Message # Msg("")) => ~ret.p.hasErr

\* C6: a numeric month of 0 or above 12 fails with Date 0 and the message
\* "month out of range", with empty LayoutElem and ValueElem, whatever
\* follows the month in the input.
C6_MonthOutOfRange ==
    (pc = "parsed" /\ call.family = "month"
        /\ (call.args.month = 0 \/ call.args.month > 12))
    => RangeError(ret, call, "month out of range")

\* Month 00 under the layout "2006-01-02", followed by text that matches
\* nothing, has been rejected.
C6_Witness ==
    /\ pc = "parsed" /\ call.family = "month" /\ call.args.month = 0
    /\ call.layout = RFC3339 /\ call.value = <<"2","0","2","4","-","0","0","x">>
    /\ ret.err # <<>>

\* C9: under the layout "06" every NN from "00" to "99" parses, to
\* Of(1900+NN, 1, 1) when NN >= 69 and to Of(2000+NN, 1, 1) when NN < 69
\* ("69" gives 1969, "68" gives 2068).
C9_CenturyRule ==
    (pc = "parsed" /\ call.family = "yy") =>
        LET nn == call.args.nn IN
        /\ ret.err = <<>>
        /\ nn >= 69 => ret.date = Of(1900 + nn, 1, 1)
        /\ nn < 69 => ret.date = Of(2000 + nn, 1, 1)
        /\ nn = 69 => Date(ret.date) = <<1969, 1, 1>>
        /\ nn = 68 => Date(ret.date) = <<2068, 1, 1>>

\* "69" has been parsed to the first day of 1969.
C9_Witness ==
    /\ pc = "parsed" /\ call.family = "yy" /\ call.args.nn = 69
    /\ ret.err = <<>> /\ Year(ret.date) = 1969

TwoDigits(v) == Len(v) = 2 /\ v[1] \in DigitChars /\ v[2] \in DigitChars

SignAndDigit(v) == Len(v) = 2 /\ v[1] \in {"+", "-"} /\ v[2] \in DigitChars

\* C10: Parse("06", v) succeeds only if v is exactly two decimal
\* digits, and fails with a syntactic mismatch for "06" when fewer than two
\* characters remain or either of the next two is not a digit.
C10_TwoDigitsOnly ==
    (pc = "parsed" /\ call.layout = opString("opYear")) =>
        LET v == call.value IN
        /\ ret.err = <<>> => TwoDigits(v)
        /\ (Len(v) < 2 \/ v[1] \notin DigitChars \/ v[2] \notin DigitChars)
            => SyntaxError(ret, call, opString("opYear"), v)

\* C10, amended: Parse("06", v) succeeds exactly when v is two characters
\* that strconv.Atoi reads as an integer: two decimal digits, or a sign
\* followed by one decimal digit ("+5" is the year 2005, "-5" the year 1995);
\* when fewer than two characters remain or the next two characters have
\* neither form, it fails with a syntactic mismatch for "06".
C10_TwoBytesAtoi ==
    (pc = "parsed" /\ call.layout = opString("opYear")) =>
        LET v  == call.value
            v2 == Upto(v, 2)
        IN
        /\ ret.err = <<>> <=> (TwoDigits(v) \/ SignAndDigit(v))
        /\ (SignAndDigit(v) /\ v[1] = "+")
            => ret.date = Of(2000 + DecVal(<<v[2]>>), 1, 1)
        /\ (SignAndDigit(v) /\ v[1] = "-")
            => ret.date = Of(2000 - DecVal(<<v[2]>>), 1, 1)
        /\ (Len(v) < 2 \/ ~(TwoDigits(v2) \/ SignAndDigit(v2)))
            => SyntaxError(ret, call, opString("opYear"), v)

\* "-9" has been parsed as the year 1991.
C10_Witness ==
    /\ pc = "parsed" /\ call.layout = opString("opYear")
    /\ call.value = <<"-", "9">> /\ ret.err = <<>> /\ Year(ret.date) = 1991

-----------------------------------------------------------------------------
(* Parse under "2006-01-02", "2006 __2" and "2006-01-02 002" *)

ParseYearSpan == 1
ParseYearCentres == {1, 4, 100, 400, 1900, 2000, 2023, 9998}

ParseYears ==
    UNION {(c - ParseYearSpan)..(c + ParseYearSpan) : c \in ParseYearCentres}
    \cap 0..9999

Dash == <<"-">>
Space == <<" ">>

\* YYYY-MM-DD for every month and every two-digit day
YmdCalls ==
    \E y \in ParseYears, m \in 1..12, dd \in 0..99 :
        call = ParseCall("ymd", RFC3339,
                         Pad(y, 4) \o Dash \o Pad(m, 2) \o Dash \o Pad(dd, 2),
                         [y |-> y, m |-> m, dd |-> dd])

InitParseYmd == InitParse /\ YmdCalls

SpecParseYmd == InitParseYmd /\ [][NextParse]_vars

\* "YYYY n" for every n of one to three digits, written with one to three digits
YdayCalls ==
    \E y \in ParseYears, n \in 0..999, w \in 1..3 :
        call = ParseCall("yday", YearDayLayout, Pad(y, 4) \o Space \o Pad(n, w),
                         [y |-> y, n |-> n])

InitParseYday == InitParse /\ YdayCalls

SpecParseYday == InitParseYday /\ [][NextParse]_vars

\* The input of one of YmdYdayLayouts for year y, month m, day dd, day of year n
YmdYdayValue(layout, y, m, dd, n) ==
    LET ymd == Pad(y, 4) \o Dash \o Pad(m, 2) \o Dash \o Pad(dd, 2)
    IN  IF layout = RFC3339 \o Space \o opString("opZeroYearDay")
        THEN ymd \o Space \o Pad(n, 3)
        ELSE IF layout = opString("opZeroYearDay") \o Space \o RFC3339
        THEN Pad(n, 3) \o Space \o ymd
        ELSE Pad(dd, 2) \o Space \o Pad(n, 3) \o Space \o Pad(y, 4) \o Space \o Itoa(m)

YmdYdayYears == {2023, 2024}
YmdYdayDays == {1, 28, 29, 30, 31}

\* Every day of the year against every month and the days above
YmdYdayCalls ==
    \E l \in YmdYdayLayouts, y \in YmdYdayYears, m \in 1..12,
       dd \in YmdYdayDays, n \in 1..366 :
        /\ n <= 365 \/ isLeap(y)
        /\ call = ParseCall("ymdyday", l, YmdYdayValue(l, y, m, dd, n),
                            [y |-> y, m |-> m, dd |-> dd, n |-> n])

InitParseYmdYday == InitParse /\ YmdYdayCalls

SpecParseYmdYday == InitParseYmdYday /\ [][NextParse]_vars

\* The Gregorian calendar, written out without the code's tables
GregorianLeap(y) == y % 4 = 0 /\ (y % 100 # 0 \/ y % 400 = 0)

GregorianDaysIn(m, y) ==
    IF m = 2 THEN (IF GregorianLeap(y) THEN 29 ELSE 28)
    ELSE IF m \in {4, 6, 9, 11} THEN 30 ELSE 31

\* C4: under "2006-01-02", an input YYYY-MM-DD with MM in 01..12 parses
\* exactly when 1 <= DD <= daysIn(MM, YYYY); the result is then the date
\* (YYYY, MM, DD), with no rollover, and otherwise the error is
\* "day out of range" (2024-02-29 parses, 2023-02-29 does not).
C4_DayValidated ==
    (pc = "parsed" /\ call.family = "ymd") =>
        LET a  == call.args
            ok == 1 <= a.dd /\ a.dd <= GregorianDaysIn(a.m, a.y)
        IN
        /\ ret.err = <<>> <=> ok
        /\ ok => Date(ret.date) = <<a.y, a.m, a.dd>>
        /\ ~ok => RangeError(ret, call, "day out of range")
        /\ <<a.y, a.m, a.dd>> = <<2024, 2, 29>> => ret.err = <<>>
        /\ <<a.y, a.m, a.dd>> = <<2023, 2, 29>> => ret.err # <<>>

\* 2023-02-29 has been rejected as out of range.
C4_Witness ==
    /\ pc = "parsed" /\ call.family = "ymd"
    /\ call.args = [y |-> 2023, m |-> 2, dd |-> 29]
    /\ RangeError(ret, call, "day out of range")

\* C7: under "2006 __2", "y n" parses exactly when 1 <= n <= 365, or n = 366
\* and y is a leap year; the result then has Year() = y and YearDay() = n
\* (n = 60 is February 29 in a leap year and March 1 otherwise, 366 is
\* December 31); otherwise the error is "day-of-year out of range".
C7_YearDayLeapAware ==
    (pc = "parsed" /\ call.family = "yday") =>
        LET a  == call.args
            ok == (1 <= a.n /\ a.n <= 365) \/ (a.n = 366 /\ GregorianLeap(a.y))
        IN
        /\ ret.err = <<>> <=> ok
        /\ ok => Year(ret.date) = a.y /\ YearDay(ret.date) = a.n
        /\ (ok /\ a.n = 60) =>
              Date(ret.date) = IF GregorianLeap(a.y) THEN <<a.y, 2, 29>> ELSE <<a.y, 3, 1>>
        /\ (ok /\ a.n = 366) => Date(ret.date) = <<a.y, 12, 31>>
        /\ ~ok => RangeError(ret, call, "day-of-year out of range")

\* "2024 366" has been parsed to December 31, 2024.
C7_Witness ==
    /\ pc = "parsed" /\ call.family = "yday"
    /\ call.args = [y |-> 2024, n |-> 366]
    /\ ret.err = <<>> /\ Date(ret.date) = <<2024, 12, 31>>

\* C8: under "2006-01-02 002", and the same tokens in another order, an
\* input with month m, day dd and a day of the year n in range parses
\* exactly when n falls on (m, dd) in year y, to Of(y, m, dd); a different
\* month fails with "day-of-year does not match month", the same month and a
\* different day with "day-of-year does not match day".
C8_YearDayAgrees ==
    (pc = "parsed" /\ call.family = "ymdyday") =>
        LET a  == call.args
            on == Date(Of(a.y, 1, 1) + a.n - 1)
        IN
        /\ ret.err = <<>> <=> (on[2] = a.m /\ on[3] = a.dd)
        /\ ret.err = <<>> => ret.date = Of(a.y, a.m, a.dd)
        /\ on[2] # a.m => RangeError(ret, call, "day-of-year does not match month")
        /\ (on[2] = a.m /\ on[3] # a.dd)
            => RangeError(ret, call, "day-of-year does not match day")

\* Day 60 of 2024 against February 28 has been rejected for its day, with the
\* day-of-year token ahead of the date.
C8_Witness ==
    /\ pc = "parsed" /\ call.family = "ymdyday"
    /\ call.args = [y |-> 2024, m |-> 2, dd |-> 28, n |-> 60]
    /\ call.layout = opString("opZeroYearDay") \o Space \o RFC3339
    /\ RangeError(ret, call, "day-of-year does not match day")

-----------------------------------------------------------------------------
(* FuzzMarshalText: Of, MarshalText, then UnmarshalText into a zero Date *)

TextYearSpan == 2
TextYearCentres == {0, 2023, 9999}

TextYears ==
    UNION {(c - TextYearSpan)..(c + TextYearSpan) : c \in TextYearCentres}

InitText ==
    /\ pc = "Of"
    /\ \E t \in TextYears \X (1..12) \X (1..31) :
            call = [fn |-> "MarshalText", year |-> t[1], month |-> t[2], day |-> t[3]]
    /\ ret = [d |-> 0]

\* The test's variables after UnmarshalText on a zero Date returned u
unmarshalled(r, u) == [d |-> r.d, text |-> r.text, got |-> u.d, err |-> u.err]

DoMarshalText ==
    /\ pc = "MarshalText"
    /\ ret' = [d |-> ret.d, text |-> MarshalText(ret.d)]
    /\ pc' = "UnmarshalText"
    /\ UNCHANGED call

DoUnmarshalText ==
    /\ pc = "UnmarshalText"
    /\ ret' = unmarshalled(ret, UnmarshalText(0, ret.text))
    /\ pc' = "unmarshalled"
    /\ UNCHANGED call

NextText == DoOf \/ DoMarshalText \/ DoUnmarshalText

SpecText == InitText /\ [][NextText]_vars

\* C3: Format and Parse are inverse on "2006-01-02" for every Date, those of
\* negative years and of years above 9999 included: UnmarshalText of
\* MarshalText(d) succeeds and yields d.
C3_TextRoundTrip ==
    pc = "unmarshalled" => (ret.err = <<>> /\ ret.got = ret.d)

-----------------------------------------------------------------------------
(* Parse on spaces, weekday names and left-over input *)

SpaceRun == 3

Spaces(n) == [k \in 1..n |-> " "]

\* A run of j spaces in the layout before, after or between tokens, against
\* k spaces in the input at that position
SpaceCalls ==
    \E j \in 1..SpaceRun, k \in 0..(SpaceRun + 1) :
        \/ call = ParseCall("space", Spaces(j) \o opString("opLongYear"),
                            Spaces(k) \o Pad(2023, 4),
                            [pos |-> "before", j |-> j, k |-> k, rest |-> Pad(2023, 4)])
        \/ call = ParseCall("space", opString("opLongYear") \o Spaces(j),
                            Pad(2023, 4) \o Spaces(k),
                            [pos |-> "after", j |-> j, k |-> k, rest |-> <<>>])
        \/ call = ParseCall("space",
                            opString("opLongYear") \o Spaces(j) \o opString("opZeroMonth"),
                            Pad(2023, 4) \o Spaces(k) \o Pad(10, 2),
                            [pos |-> "between", j |-> j, k |-> k, rest |-> Pad(10, 2)])

\* C11: a run of spaces in a layout literal matches a run of k input spaces
\* for every k >= 1, whatever the length of the literal's run, and an input
\* with no space at that position is a syntactic mismatch, both before
\* another character and at the end of the input.
C11_SpaceNeedsSpace ==
    (pc = "parsed" /\ call.family = "space") =>
        LET a == call.args IN
        /\ a.k >= 1 => ret.err = <<>>
        /\ a.k = 0 => SyntaxError(ret, call, Spaces(a.j), a.rest)

\* C11, amended: a run of spaces in a layout literal matches a run of k input
\* spaces for every k >= 1, and also the end of the input; an input that
\* goes on with another character and no space is a syntactic mismatch for
\* the literal.
C11_SpaceOrEnd ==
    (pc = "parsed" /\ call.family = "space") =>
        LET a    == call.args
            date == Of(2023, IF a.pos = "between" THEN 10 ELSE 1, 1)
        IN
        /\ (a.k >= 1 \/ a.rest = <<>>) => (ret.err = <<>> /\ ret.date = date)
        /\ (a.k = 0 /\ a.rest # <<>>) => SyntaxError(ret, call, Spaces(a.j), a.rest)

\* "   2006" has matched " 2023", and "2006 " has matched "2023".
C11_Witness ==
    /\ pc = "parsed" /\ call.family = "space" /\ ret.err = <<>>
    /\ \/ call.args = [pos |-> "before", j |-> 3, k |-> 1, rest |-> Pad(2023, 4)]
       \/ call.args = [pos |-> "after", j |-> 1, k |-> 0, rest |-> <<>>]

Upper(c) == IF Ord(c) \in 97..122 THEN Ascii32[Ord(c) - 63] ELSE c
Lower(c) == IF Ord(c) \in 65..90 THEN Ascii97[Ord(c) - 64] ELSE c

\* A word in one of four letter cases
Cased(w, how) ==
    [k \in 1..Len(w) |->
        CASE how = "same"  -> w[k]
          [] how = "upper" -> Upper(w[k])
          [] how = "lower" -> Lower(w[k])
          [] how = "mixed" -> IF k % 2 = 0 THEN Upper(w[k]) ELSE Lower(w[k])]

Cases == {"same", "upper", "lower", "mixed"}

\* Words that are no name of a day, long or short
NoDayNames ==
    { <<>>, <<"M","o">>, <<"F","o","o">>, <<"M","0","n">>, <<"X","o","n","d","a","y">>,
      <<"M","o","n","d","a","i">>, <<"F","r","i">>, <<"2","0","2","4">> }

\* The weekday token and its table, by the length of the names
DayToken(long) == opString(IF long THEN "opLongWeekDay" ELSE "opWeekDay")
DayNames(long) == IF long THEN longDayNames ELSE shortDayNames

\* The seven days from Sunday 2024-02-25 on, each with every name of a day in
\* every letter case ahead of or behind the date, and with no name of a day
WeekdayCalls ==
    \E long \in BOOLEAN, first \in BOOLEAN, i \in 0..6 :
        LET ymd == Pad(2024, 4) \o Dash \o Pad(IF i < 5 THEN 2 ELSE 3, 2) \o Dash
                   \o Pad(IF i < 5 THEN 25 + i ELSE i - 4, 2)
            day == [y |-> 2024, m |-> IF i < 5 THEN 2 ELSE 3,
                    dd |-> IF i < 5 THEN 25 + i ELSE i - 4, wd |-> i]
            lay == IF first THEN DayToken(long) \o Space \o RFC3339
                   ELSE RFC3339 \o Space \o DayToken(long)
            val(w) == IF first THEN w \o Space \o ymd ELSE ymd \o Space \o w
            el(w)  == IF first THEN val(w) ELSE w
        IN  \/ \E n \in 1..7, how \in Cases :
                call = ParseCall("weekday", lay, val(Cased(DayNames(long)[n], how)),
                                 [day |-> day, name |-> n - 1])
            \/ \E w \in NoDayNames :
                /\ \A n \in 1..7 : ~HasPrefix(w, DayNames(long)[n])
                /\ call = ParseCall("noweekday", lay, val(w),
                                    [elem |-> DayToken(long), valueElem |-> el(w)])

\* C12: a weekday token is checked for being a name of a day and not against
\* the date: with "Mon" or "Monday" next to date tokens, each of the seven
\* names in any letter case parses to the date the date tokens give, whose
\* Weekday() is the computed one ("Friday 2024-02-25" gives 2024-02-25, a
\* Sunday); a word that is no name of a day is a syntactic mismatch.
C12_WeekdayNotValidated ==
    /\ (pc = "parsed" /\ call.family = "weekday") =>
          LET a == call.args IN
          /\ ret.err = <<>>
          /\ ret.date = Of(a.day.y, a.day.m, a.day.dd)
          /\ Weekday(ret.date) = a.day.wd
    /\ (pc = "parsed" /\ call.family = "noweekday") =>
          SyntaxError(ret, call, call.args.elem, call.args.valueElem)

\* "FRIDAY 2024-02-25" has been parsed to 2024-02-25, a Sunday.
C12_Witness ==
    /\ pc = "parsed" /\ call.family = "weekday"
    /\ call.value = Cased(longDayNames[6], "upper") \o Space
                    \o <<"2","0","2","4","-","0","2","-","2","5">>
    /\ ret.err = <<>> /\ Date(ret.date) = <<2024, 2, 25>> /\ Weekday(ret.date) = 0

\* Inputs each instruction of the layout matches, of dates in range and out
\* of range for the day and for the day of the year
ExtraBases ==
    { [layout |-> RFC3339, value |-> <<"2","0","2","4","-","0","2","-","2","9">>],
      [layout |-> RFC3339, value |-> <<"2","0","2","3","-","0","2","-","2","9">>],
      [layout |-> RFC3339, value |-> <<"2","0","2","3","-","0","4","-","0","0">>],
      [layout |-> RFC3339, value |-> <<"2","0","2","3","-","1","2","-","9","9">>],
      [layout |-> YearDayLayout, value |-> <<"2","0","2","3"," ","3","6","5">>],
      [layout |-> YearDayLayout, value |-> <<"2","0","2","3"," ","3","6","6">>],
      [layout |-> YearDayLayout, value |-> <<"2","0","2","3"," ","0","0","0">>],
      [layout |-> RFC3339 \o Space \o opString("opZeroYearDay"),
       value |-> <<"2","0","2","3","-","1","0","-","2","5"," ","2","9","8">>],
      [layout |-> RFC3339 \o Space \o opString("opZeroYearDay"),
       value |-> <<"2","0","2","3","-","1","0","-","2","5"," ","1","0","0">>],
      [layout |-> RFC1123, value |-> <<"3","1"," ","F","e","b"," ","2","0","2","3">>],
      [layout |-> RFC822, value |-> <<"1","4"," ","M","a","y"," ","2","4">>],
      [layout |-> <<>>, value |-> <<>>] }

ExtraLen == 2
ExtraAlphabet == {"x", " ", "0", "-", "\""}

ExtraCalls ==
    \E b \in ExtraBases, x \in Strings(ExtraAlphabet, ExtraLen) :
        /\ x # <<>>
        /\ call = ParseCall("extra", b.layout, b.value \o x, [extra |-> x])

InitParseWords == InitParse /\ (SpaceCalls \/ WeekdayCalls \/ ExtraCalls)

SpecParseWords == InitParseWords /\ [][NextParse]_vars

\* C13: Parse must consume the whole input: when every instruction of the
\* layout matches and input remains, the result is Date 0 and an error whose
\* Message is "extra text: " and the quoted rest, whether or not the day or
\* the day of the year parsed is in range.
C13_ExtraText ==
    (pc = "parsed" /\ call.family = "extra") =>
        /\ ret.date = 0
        /\ ret.err = <<[Layout |-> call.layout, Value |-> call.value,
                        LayoutElem |-> <<>>, ValueElem |-> <<>>,
                        Message |-> [text |-> "extra text: ",
                                     quoted |-> Quote(call.args.extra)]]>>

\* "2023-02-29x", whose day is out of range, has been rejected for its "x".
C13_Witness ==
    /\ pc = "parsed" /\ call.family = "extra"
    /\ call.value = <<"2","0","2","3","-","0","2","-","2","9","x">>
    /\ ret.err # <<>> /\ ret.err[1].Message.quoted = <<"\"", "x", "\"">>

-----------------------------------------------------------------------------
(* date.go: AddDate, ISOWeek and the binary encoding *)

\* AddDate's return statement, ymd being what d.Date() returned
addTo(ymd, years, months, days) == Of(ymd[1] + years, ymd[2] + months, ymd[3] + days)

\* AddDate cutting a day above 28 down to 28 when months are added
AddDateClamped(d, years, months, days) ==
    Of(Date(d)[1] + years, Date(d)[2] + months, 1) - 1 + days
    + (IF Date(d)[3] > 28 /\ months # 0 THEN 28 ELSE Date(d)[3])

AddDate(d, years, months, days) == addTo(Date(d), years, months, days)

Thursday == 4

\* ISOWeek's offset to the Thursday of d's week, wd being d.Weekday()
isoOffset(wd) == IF Thursday - wd = 4 THEN -3 ELSE Thursday - wd

\* ISOWeek's return statement, a being absDate of the shifted day
isoOf(a) == <<a.year, (a.yday \div 7) + 1>>

\* ISOWeek without the case of Sunday
ISOWeekSundayFirst(d) == isoOf(absDate(abs(d + Thursday - Weekday(d)), FALSE))

ISOWeek(d) == isoOf(absDate(abs(d + isoOffset(Weekday(d))), FALSE))

MaxVarintLen64 == 10

\* binary.PutUvarint: seven bits a byte, the low ones first
RECURSIVE PutUvarint(_)
PutUvarint(x) ==
    IF x < 128 THEN <<x>> ELSE <<128 + (x % 128)>> \o PutUvarint(x \div 128)

\* binary.PutVarint: the zig-zag encoding of x, then PutUvarint
PutVarint(x) == PutUvarint(IF x < 0 THEN -2 * x - 1 ELSE 2 * x)

\* A uint64 as three limbs <<lo, mid, hi>> of 28, 28 and 8 bits
Limb == 268435456

\* x | uint64(g) << sh for a group g of seven bits and a shift sh that is a
\* multiple of 7: the group lies within one limb, and the shift by 63 keeps
\* its lowest bit only
orShifted(x, g, sh) ==
    [x EXCEPT ![(sh \div 28) + 1] =
        @ + (IF sh = 63 THEN g % 2 ELSE g) * (2 ^ (sh % 28))]

\* binary.Uvarint from byte i on, as <<value, bytes read>>; x is the value
\* so far
RECURSIVE Uvarint(_, _, _)
Uvarint(buf, i, x) ==
    IF i >= Len(buf) THEN << <<0, 0, 0>>, 0>>
    ELSE IF i = MaxVarintLen64 THEN << <<0, 0, 0>>, -(i + 1)>>
    ELSE IF buf[i + 1] < 128
         THEN IF i = MaxVarintLen64 - 1 /\ buf[i + 1] > 1
              THEN << <<0, 0, 0>>, -(i + 1)>>
              ELSE <<orShifted(x, buf[i + 1], 7 * i), i + 1>>
    ELSE Uvarint(buf, i + 1, orShifted(x, buf[i + 1] - 128, 7 * i))

\* ux >> 1 on the limbs
shr1(x) ==
    <<(x[1] \div 2) + (x[2] % 2) * (Limb \div 2),
      (x[2] \div 2) + (x[3] % 2) * (Limb \div 2),
      x[3] \div 2>>

\* binary.Varint's decoding of what Uvarint returned: int64(ux >> 1),
\* complemented when ux is odd; the int64 is mag, or -mag - 1 when neg
unzigzag(u) == <<[neg |-> u[1][1] % 2 = 1, mag |-> shr1(u[1])], u[2]>>

\* What Uvarint returned taken as the int64 itself
unsigned(u) == <<[neg |-> FALSE, mag |-> u[1]], u[2]>>

Varint(buf) == unzigzag(Uvarint(buf, 0, <<0, 0, 0>>))

MarshalBinary(d) == PutVarint(d)

\* int64(int(v)) == v where int has the given number of bits, 32 or 64
fitsInt(bits, v) == bits = 64 \/ (v.mag[3] = 0 /\ v.mag[2] < 8)

\* Date(v): the number of days where 32 bits hold it, else the int64 as it is
DateOf(v) ==
    IF fitsInt(32, v)
    THEN (IF v.neg THEN -(v.mag[1] + v.mag[2] * Limb) - 1
          ELSE v.mag[1] + v.mag[2] * Limb)
    ELSE v

\* The switch with the test of the bytes left ahead of the test for overflow
decodedExtraFirst(bits, recv, v, b) ==
    IF v[2] = 0 THEN [d |-> recv, err |-> <<"encoded date truncated">>]
    ELSE IF v[2] > 0 /\ v[2] # Len(b)
    THEN [d |-> recv, err |-> <<"extra data after date">>]
    ELSE IF v[2] < 0 \/ ~fitsInt(bits, v[1])
    THEN [d |-> recv, err |-> <<"encoded date overflows int">>]
    ELSE [d |-> DateOf(v[1]), err |-> <<>>]

\* UnmarshalBinary's switch, v being what binary.Varint returned for b
decoded(bits, recv, v, b) ==
    IF v[2] = 0 THEN [d |-> recv, err |-> <<"encoded date truncated">>]
    ELSE IF v[2] < 0 \/ ~fitsInt(bits, v[1])
    THEN [d |-> recv, err |-> <<"encoded date overflows int">>]
    ELSE IF v[2] # Len(b) THEN [d |-> recv, err |-> <<"extra data after date">>]
    ELSE [d |-> DateOf(v[1]), err |-> <<>>]

\* UnmarshalBinary reading the varint as an unsigned one
UnmarshalBinaryUnsigned(bits, recv, b) ==
    decoded(bits, recv, unsigned(Uvarint(b, 0, <<0, 0, 0>>)), b)

\* UnmarshalBinary on a receiver holding recv, int having the given number of
\* bits: the receiver afterwards, and the error
UnmarshalBinary(bits, recv, b) == decoded(bits, recv, Varint(b), b)

MethodSpan == 8000
AddYears == 1
AddMonths == 13
AddDays == 35

\* Days around 0001-01-01, 1900-01-01 and 2021-07-01
MethodCentres == {0, 693595, 738000}
MethodDates == UNION {(c - MethodSpan)..(c + MethodSpan) : c \in MethodCentres}

\* The receivers of AddDate: the dates of its documentation and of
\* ExampleDiffDates, ends of months, and days around day 0
AddDates ==
    { Of(2011, 1, 1), Of(2023, 10, 31), Of(2024, 3, 5), Of(2024, 2, 5),
      Of(2024, 2, 29), Of(2023, 12, 31), Of(2000, 1, 31), Of(1900, 3, 1),
      Of(0, 2, 29), 0, -1, -366 }

\* Day counts at the lengths of the encoding that MethodDates leaves out
BinaryEdges == {1048575, 1048576, -1048576, -1048577, 134217728, -134217729,
                1073741823, -1073741823}

RunLen == 11

\* Encoded dates that MarshalBinary does not return: a run of bytes with the
\* continuation bit, then a byte without it or none, then further bytes
BinaryInputs ==
    \E run \in 0..RunLen, cont \in {128, 255},
       term \in {<<>>, <<0>>, <<1>>, <<2>>, <<127>>},
       extra \in {<<>>, <<0>>, <<128>>, <<1, 1>>},
       recv \in {0, 738000}, bits \in {32, 64} :
        /\ term = <<>> => extra = <<>>
        /\ call = [fn |-> "UnmarshalBinary", bits |-> bits, recv |-> recv,
                   b |-> [k \in 1..run |-> cont] \o term \o extra]

InitMethods ==
    /\ ret = [d |-> 0]
    /\ \/ \E d \in AddDates, years \in -AddYears..AddYears,
             months \in -AddMonths..AddMonths, days \in -AddDays..AddDays :
            call = [fn |-> "AddDate", d |-> d, years |-> years, months |-> months,
                    days |-> days]
       \/ \E d \in MethodDates, fn \in {"ISOWeek", "Weekday"} : call = [fn |-> fn, d |-> d]
       \/ \E d \in MethodDates \cup BinaryEdges : call = [fn |-> "MarshalBinary", d |-> d]
       \/ BinaryInputs
    /\ pc = call.fn

DoAddDate ==
    /\ pc = "AddDate"
    /\ ret' = [out |-> AddDate(call.d, call.years, call.months, call.days)]
    /\ pc' = "returned"
    /\ UNCHANGED call

DoISOWeek ==
    /\ pc = "ISOWeek"
    /\ ret' = [out |-> ISOWeek(call.d)]
    /\ pc' = "returned"
    /\ UNCHANGED call

DoWeekday ==
    /\ pc = "Weekday"
    /\ ret' = [out |-> Weekday(call.d)]
    /\ pc' = "returned"
    /\ UNCHANGED call

DoMarshalBinary ==
    /\ pc = "MarshalBinary"
    /\ ret' = [b |-> MarshalBinary(call.d)]
    /\ pc' = "UnmarshalBinary"
    /\ UNCHANGED call

\* The variables after UnmarshalBinary(b) returned u
unmarshalledBinary(b, u) == [b |-> b, got |-> u.d, err |-> u.err]

\* UnmarshalBinary's arguments: those of the call, or else a zero Date, the
\* bytes that MarshalBinary returned and an int of 64 bits
receiverOf(c) == IF c.fn = "UnmarshalBinary" THEN c.recv ELSE 0
intBitsOf(c) == IF c.fn = "UnmarshalBinary" THEN c.bits ELSE 64
bytesOf(c, r) == IF c.fn = "UnmarshalBinary" THEN c.b ELSE r.b

DoUnmarshalBinary ==
    /\ pc = "UnmarshalBinary"
    /\ ret' = unmarshalledBinary(bytesOf(call, ret),
                  UnmarshalBinary(intBitsOf(call), receiverOf(call), bytesOf(call, ret)))
    /\ pc' = "returned"
    /\ UNCHANGED call

NextMethods ==
    DoAddDate \/ DoISOWeek \/ DoWeekday \/ DoMarshalBinary \/ DoUnmarshalBinary

SpecMethods == InitMethods /\ [][NextMethods]_vars

\* C14: AddDate adds to the year, month and day of d and normalizes:
\* d.AddDate(years, months, days) = Of(Y+years, M+months, D+days) for
\* d.Date() = (Y, M, D); d.AddDate(0, 0, n) = d + n; AddDate(-1, 2, 3) of
\* 2011-01-01 is 2010-03-04, and one month after October 31 is December 1.
C14_AddDate ==
    (pc = "returned" /\ call.fn = "AddDate") =>
        LET ymd == Date(call.d) IN
        /\ ret.out = Of(ymd[1] + call.years, ymd[2] + call.months, ymd[3] + call.days)
        /\ (call.years = 0 /\ call.months = 0) => ret.out = call.d + call.days
        /\ (ymd = <<2011, 1, 1>> /\ <<call.years, call.months, call.days>> = <<-1, 2, 3>>)
            => Date(ret.out) = <<2010, 3, 4>>
        /\ (ymd[2] = 10 /\ ymd[3] = 31
               /\ <<call.years, call.months, call.days>> = <<0, 1, 0>>)
            => Date(ret.out) = <<ymd[1], 12, 1>>

\* One month has been added to 2023-10-31, giving 2023-12-01.
C14_Witness ==
    /\ pc = "returned" /\ call.fn = "AddDate" /\ call.d = Of(2023, 10, 31)
    /\ <<call.years, call.months, call.days>> = <<0, 1, 0>>
    /\ ret.out = Of(2023, 12, 1)

\* The Thursday of the week from Monday to Sunday that holds d (day 0 is a
\* Monday), and the first Thursday of year y
ThursdayOf(d) == d - (d % 7) + 3
FirstThursday(y) == CHOOSE t \in Of(y, 1, 1)..(Of(y, 1, 1) + 6) : t % 7 = 3

\* C15: ISOWeek is the ISO 8601 week: its year Y is the year of the Thursday
\* of d's week from Monday to Sunday, its week W counts the weeks of Y from
\* the one with Y's first Thursday; 1 <= W <= 53, the seven days of a week
\* agree, and Y differs from d.Year() only on January 1-3 (Y = Year-1, W is
\* 52 or 53) and on December 29-31 (Y = Year+1, W = 1).
C15_ISOWeek ==
    (pc = "returned" /\ call.fn = "ISOWeek") =>
        LET th  == ThursdayOf(call.d)
            Y   == ret.out[1]
            W   == ret.out[2]
            ymd == Date(call.d)
        IN
        /\ Y = Year(th)
        /\ W = ((th - FirstThursday(Y)) \div 7) + 1
        /\ 1 <= W /\ W <= 53
        /\ \A k \in 0..6 : ISOWeek(th - 3 + k) = ret.out
        /\ Y # ymd[1] =>
              \/ ymd[2] = 1 /\ ymd[3] <= 3 /\ Y = ymd[1] - 1 /\ W \in {52, 53}
              \/ ymd[2] = 12 /\ ymd[3] >= 29 /\ Y = ymd[1] + 1 /\ W = 1

\* Friday 2021-01-01 has been placed in week 53 of 2020.
C15_Witness ==
    /\ pc = "returned" /\ call.fn = "ISOWeek" /\ call.d = Of(2021, 1, 1)
    /\ ret.out = <<2020, 53>>

\* C16: Weekday is the day count shifted by the weekday of day 0, a Monday:
\* d.Weekday() = (1 + d) mod 7 as a non-negative remainder with 0 = Sunday,
\* for negative d too; it lies in 0..6 and the next day has the next weekday.
C16_Weekday ==
    (pc = "returned" /\ call.fn = "Weekday") =>
        /\ ret.out = (1 + call.d) % 7
        /\ ret.out \in 0..6
        /\ call.d = 0 => ret.out = 1
        /\ Weekday(call.d + 1) = (ret.out + 1) % 7

\* The day before 0001-01-01 has been found to be a Sunday.
C16_Witness ==
    pc = "returned" /\ call.fn = "Weekday" /\ call.d = -1 /\ ret.out = 0

\* The zig-zag varint of x, by its definition: the unsigned 2x or -2x-1 in
\* groups of seven bits, the low ones first, each but the last with bit 7 set
ZigZag(x) == IF x < 0 THEN -2 * x - 1 ELSE 2 * x
IsVarintOf(b, u) ==
    /\ Len(b) >= 1
    /\ \A k \in 1..Len(b) : b[k] \in 0..255 /\ (b[k] >= 128 <=> k < Len(b))
    /\ Len(b) > 1 => b[Len(b)] # 0
    /\ \A k \in 1..Len(b) : b[k] % 128 = (u \div (128 ^ (k - 1))) % 128
    /\ u \div (128 ^ (Len(b) - 1)) < 128

\* C20: the binary encoding round-trips: UnmarshalBinary of MarshalBinary(d)
\* returns a nil error and sets the receiver to d, negative d included, and
\* MarshalBinary(d) is the zig-zag varint of the day count.
C20_BinaryRoundTrip ==
    /\ (call.fn = "MarshalBinary" /\ pc \in {"UnmarshalBinary", "returned"})
        => IsVarintOf(ret.b, ZigZag(call.d))
    /\ (pc = "returned" /\ call.fn = "MarshalBinary")
        => (ret.err = <<>> /\ ret.got = call.d)

\* A negative day count of two bytes has come back from its encoding.
C20_Witness ==
    /\ pc = "returned" /\ call.fn = "MarshalBinary" /\ call.d = -65
    /\ ret.b = <<129, 1>> /\ ret.got = -65 /\ ret.err = <<>>

-----------------------------------------------------------------------------
(* FuzzParseLayout, FuzzFormat, FuzzParse and TestFormat: any layout *)

\* Tokens, beginnings of tokens and what may follow a token
LayoutPieces ==
    TokenLayouts \cup
    { <<>>, <<"J","a">>, <<"M","o","n","d">>, <<"u","a","r","y">>, <<"d","a","y">>,
      <<"_">>, <<"0">>, <<"0","0">>, <<"2","0">>, <<"6">>, <<" ">>, <<"-">>, <<"x">> }

PieceLayouts == {a \o b : a, b \in LayoutPieces}

LayoutLen == 4
LayoutAlphabet == {"0", "1", "2", "6", "_"}

\* The dates formatted under every layout
FormatDates ==
    {Of(2023, 10, 25), Of(2023, 3, 2), Of(2024, 2, 29), Of(2024, 12, 31),
     Of(1, 1, 1), Of(0, 12, 31), Of(-2003, 10, 25), Of(12345, 1, 9)}

\* The inputs parsed under every layout
ParseValues ==
    { <<>>, <<"0">>, <<"1","3">>, <<"3","2">>, <<"0","0","0">>, <<"3","6","6">>,
      <<"9","9","9">>, <<"F","e","b">>, <<"_">>, <<"x">> }

\* The layouts of the year tokens
YearTokens == {opString("opYear"), opString("opLongYear"), opString("opUnderLongYear")}

FormatYearSpan == 25
FormatYearCentres == {-10000, -2003, -1000, -100, 0, 100, 1000, 2023, 10000}
FormatYears ==
    UNION {(c - FormatYearSpan)..(c + FormatYearSpan) : c \in FormatYearCentres}

FormatCall(family, layout, d, args) ==
    [fn |-> "Format", family |-> family, layout |-> layout, d |-> d, args |-> args]

InitLayouts ==
    /\ ret = [date |-> 0]
    /\ \/ \E l \in PieceLayouts \cup Strings(LayoutAlphabet, LayoutLen) :
            call = [fn |-> "parseLayout", layout |-> l]
       \/ \E l \in PieceLayouts \cup Strings(LayoutAlphabet, LayoutLen) :
            call = [fn |-> "nextOp", layout |-> l]
       \/ \E l \in PieceLayouts, d \in FormatDates :
            call = FormatCall("fuzz", l, d, [y |-> Year(d)])
       \/ \E l \in YearTokens, y \in FormatYears :
            call = FormatCall("year", l, Of(y, 10, 25), [y |-> y])
       \/ \E l \in PieceLayouts, v \in ParseValues :
            call = ParseCall("fuzz", l, v, [v |-> v])
    /\ pc = call.fn

\* FuzzParseLayout: parseLayout(s)
DoParseLayout ==
    /\ pc = "parseLayout"
    /\ ret' = [prog |-> parseLayout(call.layout)]
    /\ pc' = "compiled"
    /\ UNCHANGED call

\* What nextOp returned
scanned(n) == [prefix |-> n[1], op |-> n[2], suffix |-> n[3]]

\* nextOp(layout), as parseLayout calls it
DoNextOp ==
    /\ pc = "nextOp"
    /\ ret' = scanned(nextOp(call.layout))
    /\ pc' = "scanned"
    /\ UNCHANGED call

\* FuzzFormat, TestFormat: Date(date).Format(layout)
DoFormat ==
    /\ pc = "Format"
    /\ ret' = [text |-> Format(call.d, call.layout)]
    /\ pc' = "formatted"
    /\ UNCHANGED call

\* Parse of what Format returned, under the same layout
DoParseBack ==
    /\ pc = "formatted"
    /\ ret' = returned(ParseVars(call.layout, ret.text))
    /\ pc' = "parsed"
    /\ UNCHANGED call

NextLayouts == DoParseLayout \/ DoNextOp \/ DoFormat \/ DoParseBack \/ DoParse

SpecLayouts == InitLayouts /\ [][NextLayouts]_vars

\* An instruction is a literal that is not empty or one of the 14 operators
DefinedInst(i) ==
    \/ i.op = "opLiteral" /\ i.lit # <<>>
    \/ /\ i.lit = <<>>
       /\ Len(fmtOps) = 14
       /\ \E k \in 1..Len(fmtOps) : i.op = fmtOps[k]

\* C17: parseLayout ends on every layout with a program whose instructions
\* are each a non-empty literal or one of the 14 operators; Format and Parse
\* never reach the "invalid inst" panic; and Parse reads daysBefore and calls
\* daysIn only at a month in 1..12 (daysBefore also at the entry before it).
C17_Total ==
    /\ pc = "compiled" =>
          \A k \in 1..Len(ret.prog) : DefinedInst(ret.prog[k])
    /\ pc = "formatted" =>
          \A k \in 1..Len(ret.text) : ret.text[k] # "panic: invalid inst"
    /\ pc = "parsed" =>
          /\ \A k \in 1..Len(ret.err) :
                ret.err[k].Message.text # "panic: invalid inst"
          /\ ret.daysInOf \subseteq 1..12
          /\ ret.daysBeforeAt \subseteq 0..12
          /\ \E m \in 1..12 : ret.daysBeforeAt \subseteq {m - 1, m}

\* "2006002" has formatted the last day of 2024 as "2024366" and Parse has
\* read it back, reading daysBefore at December and calling daysIn with it.
C17_Witness ==
    /\ pc = "parsed" /\ call.fn = "Format"
    /\ call.layout = opString("opLongYear") \o opString("opZeroYearDay")
    /\ call.d = Of(2024, 12, 31)
    /\ ret.err = <<>> /\ ret.date = call.d
    /\ ret.daysBeforeAt = {11, 12} /\ ret.daysInOf = {12}

\* C18: for every date, "06" formats as exactly the last two decimal digits
\* of |year| without a sign, "2006" as a "-" for a negative year followed by
\* |year| in decimal with zeros in front up to four digits, and "_2006" as
\* "_" followed by what "2006" formats as.
C18_YearTokens ==
    (pc = "formatted" /\ call.family = "year") =>
        LET y    == call.args.y
            ay   == IF y < 0 THEN -y ELSE y
            long == (IF y < 0 THEN <<"-">> ELSE <<>>) \o Pad(ay, 4)
        IN
        /\ Year(call.d) = y
        /\ call.layout = opString("opYear") =>
              ret.text = Pad(ay % 100, 2)
        /\ call.layout = opString("opLongYear") => ret.text = long
        /\ call.layout = opString("opUnderLongYear") => ret.text = <<"_">> \o long

\* "06" has formatted a day of the year -2003 as "03".
C18_Witness ==
    /\ pc = "formatted" /\ call.family = "year"
    /\ call.layout = opString("opYear") /\ call.args.y = -2003
    /\ ret.text = <<"0", "3">>

-----------------------------------------------------------------------------
(* internal/cache/cache.go: goroutines calling Get, Evict and Flush *)

NumGoroutines == 3
Goroutines == 1..NumGoroutines
Keys == {"k1", "k2"}

\* What Sizer.Size reports for the values fill returns; 1 is also the size
\* of a value that is no Sizer
Sizes == {1, 2}

DefaultSize == 1024
SmallMaxSize == 2

\* No value: what m holds for a key it has no element for
None == [by |-> 0, size |-> 0]

\* The calls, in the order that goroutines are assigned them in
Ops ==
    << [fn |-> "Get", k |-> "k1"], [fn |-> "Get", k |-> "k2"],
       [fn |-> "Evict", k |-> "k1"], [fn |-> "Evict", k |-> "k2"],
       [fn |-> "Flush", k |-> ""] >>

size(v) == v.size

\* fullRLocked
fullRLocked(c) == c.n > (IF c.MaxSize = 0 THEN DefaultSize ELSE c.MaxSize)

\* evictLocked without the update of c.n
evictLockedKeepsCount(c, k) == [c EXCEPT !.m[k] = None]

\* evictLocked
evictLocked(c, k) ==
    IF c.m[k] # None THEN [c EXCEPT !.m[k] = None, !.n = @ - size(c.m[k])]
    ELSE c

\* The record of fills, insertions and removals kept beside the cache: after
\* a step from cache c to cache c2, every key that lost its element is counted
noteRemoved(h, c, c2) ==
    [h EXCEPT !.removed =
        [k \in Keys |-> @[k] + IF c.m[k] # None /\ c2.m[k] = None THEN 1 ELSE 0]]

\* The zero Cache with MaxSize set, no goroutine having started
InitCache ==
    /\ \E f \in [Goroutines -> 1..Len(Ops)] :
          /\ \A g, h \in Goroutines : g < h => f[g] <= f[h]
          /\ call = [g \in Goroutines |-> Ops[f[g]]]
    /\ pc = [g \in Goroutines |-> call[g].fn]
    /\ \E max \in 0 .. SmallMaxSize :
          ret = [c    |-> [MaxSize |-> max, mu |-> [w |-> {}, r |-> {}],
                           isNil |-> TRUE, m |-> [k \in Keys |-> None], n |-> 0],
                 loc  |-> [g \in Goroutines |-> [v |-> None, nv |-> None, todo |-> {}]],
                 got  |-> [g \in Goroutines |-> None],
                 hist |-> [fills    |-> [k \in Keys |-> 0],
                           inserted |-> [k \in Keys |-> 0],
                           removed  |-> [k \in Keys |-> 0],
                           first    |-> [k \in Keys |-> None],
                           by       |-> {}]]

\* sync.RWMutex: RLock waits while a writer holds the lock, Lock while
\* anyone does
canRLock(mu) == mu.w = {}

canLock(mu) == mu.w = {} /\ mu.r = {}

\* c.mu.RLock()
GetRLock(g) ==
    /\ pc[g] = "Get"
    /\ canRLock(ret.c.mu)
    /\ ret' = [ret EXCEPT !.c.mu.r = @ \cup {g}]
    /\ pc' = [pc EXCEPT ![g] = "Get.read"]
    /\ UNCHANGED call

\* v, ok := c.m[k]
GetRead(g) ==
    /\ pc[g] = "Get.read"
    /\ ret' = [ret EXCEPT !.loc[g].v = ret.c.m[call[g].k]]
    /\ pc' = [pc EXCEPT ![g] = IF ret.c.m[call[g].k] # None THEN "Get.hit"
                               ELSE "Get.miss"]
    /\ UNCHANGED call

\* c.mu.RUnlock(); return v
GetHit(g) ==
    /\ pc[g] = "Get.hit"
    /\ ret' = [ret EXCEPT !.c.mu.r = @ \ {g}, !.got[g] = ret.loc[g].v]
    /\ pc' = [pc EXCEPT ![g] = "done"]
    /\ UNCHANGED call

\* c.mu.RUnlock() after the miss
GetMiss(g) ==
    /\ pc[g] = "Get.miss"
    /\ ret' = [ret EXCEPT !.c.mu.r = @ \ {g}]
    /\ pc' = [pc EXCEPT ![g] = "Get.fill"]
    /\ UNCHANGED call

\* nv := fill(k): a value of this call's own
GetFill(g) ==
    /\ pc[g] = "Get.fill"
    /\ \E s \in Sizes :
          ret' = [ret EXCEPT !.loc[g].nv = [by |-> g, size |-> s],
                             !.hist.fills[call[g].k] = @ + 1]
    /\ pc' = [pc EXCEPT ![g] = "Get.Lock"]
    /\ UNCHANGED call

\* c.mu.Lock()
GetLock(g) ==
    /\ pc[g] = "Get.Lock"
    /\ canLock(ret.c.mu)
    /\ ret' = [ret EXCEPT !.c.mu.w = @ \cup {g}]
    /\ pc' = [pc EXCEPT ![g] = "Get.recheck"]
    /\ UNCHANGED call

\* The second look at c.m[k] left out: the value is inserted whatever c.m holds
recheckSkipped(m, k) == None

\* The second v, ok := c.m[k], under the exclusive lock
recheck(m, k) == m[k]

\* if v, ok := c.m[k]; ok { return v }
GetRecheck(g) ==
    /\ pc[g] = "Get.recheck"
    /\ ret' = [ret EXCEPT !.loc[g].v = recheck(ret.c.m, call[g].k)]
    /\ pc' = [pc EXCEPT ![g] = IF recheck(ret.c.m, call[g].k) # None
                               THEN "Get.Unlock" ELSE "Get.insert"]
    /\ UNCHANGED call

\* The cache after c.m = make(...) if c.m is nil, c.m[k] = nv, c.n += size(nv)
inserted(c, k, nv) ==
    [c EXCEPT !.isNil = FALSE, !.m[k] = nv, !.n = @ + size(nv)]

\* The record after an insertion of nv for k
noteInserted(h, k, nv) ==
    [h EXCEPT !.inserted[k] = @ + 1,
              !.first[k] = IF @ = None THEN nv ELSE @,
              !.by = @ \cup {nv.by}]

\* The insertion, then the start of the loop over c.m; v is what Get returns
GetInsert(g) ==
    /\ pc[g] = "Get.insert"
    /\ ret' = [ret EXCEPT
                 !.c = inserted(@, call[g].k, ret.loc[g].nv),
                 !.hist = noteInserted(@, call[g].k, ret.loc[g].nv),
                 !.loc[g].v = ret.loc[g].nv,
                 !.loc[g].todo = {k \in Keys : k = call[g].k \/ ret.c.m[k] # None}]
    /\ pc' = [pc EXCEPT ![g] = "Get.range"]
    /\ UNCHANGED call

\* One turn of for k := range c.m: the end of the map, the break when the
\* cache is not full, or the eviction of the key the turn is at
GetRange(g) ==
    /\ pc[g] = "Get.range"
    /\ \/ /\ ret.loc[g].todo = {} \/ ~fullRLocked(ret.c)
          /\ ret' = [ret EXCEPT !.loc[g].todo = {}]
          /\ pc' = [pc EXCEPT ![g] = "Get.Unlock"]
       \/ /\ fullRLocked(ret.c)
          /\ \E k \in ret.loc[g].todo :
                ret' = [ret EXCEPT !.c = evictLocked(@, k),
                                   !.hist = noteRemoved(@, ret.c, evictLocked(ret.c, k)),
                                   !.loc[g].todo = @ \ {k}]
          /\ pc' = pc
    /\ UNCHANGED call

\* The deferred c.mu.Unlock() and the return of v or nv
GetUnlock(g) ==
    /\ pc[g] = "Get.Unlock"
    /\ ret' = [ret EXCEPT !.c.mu.w = @ \ {g}, !.got[g] = ret.loc[g].v]
    /\ pc' = [pc EXCEPT ![g] = "done"]
    /\ UNCHANGED call

\* Evict: c.mu.Lock()
EvictLock(g) ==
    /\ pc[g] = "Evict"
    /\ canLock(ret.c.mu)
    /\ ret' = [ret EXCEPT !.c.mu.w = @ \cup {g}]
    /\ pc' = [pc EXCEPT ![g] = "Evict.evictLocked"]
    /\ UNCHANGED call

\* Evict: c.evictLocked(k)
EvictEvict(g) ==
    /\ pc[g] = "Evict.evictLocked"
    /\ ret' = [ret EXCEPT !.c = evictLocked(@, call[g].k),
                          !.hist = noteRemoved(@, ret.c, evictLocked(ret.c, call[g].k))]
    /\ pc' = [pc EXCEPT ![g] = "Evict.Unlock"]
    /\ UNCHANGED call

\* Evict: the deferred c.mu.Unlock()
EvictUnlock(g) ==
    /\ pc[g] = "Evict.Unlock"
    /\ ret' = [ret EXCEPT !.c.mu.w = @ \ {g}]
    /\ pc' = [pc EXCEPT ![g] = "done"]
    /\ UNCHANGED call

\* Flush: c.mu.Lock()
FlushLock(g) ==
    /\ pc[g] = "Flush"
    /\ canLock(ret.c.mu)
    /\ ret' = [ret EXCEPT !.c.mu.w = @ \cup {g}]
    /\ pc' = [pc EXCEPT ![g] = "Flush.clear"]
    /\ UNCHANGED call

\* The cache after clear(c.m) and c.n = 0
flushed(c) == [c EXCEPT !.m = [k \in Keys |-> None], !.n = 0]

\* Flush: clear(c.m); c.n = 0
FlushClear(g) ==
    /\ pc[g] = "Flush.clear"
    /\ ret' = [ret EXCEPT !.c = flushed(@),
                          !.hist = noteRemoved(@, ret.c, flushed(ret.c))]
    /\ pc' = [pc EXCEPT ![g] = "Flush.Unlock"]
    /\ UNCHANGED call

\* Flush: the deferred c.mu.Unlock()
FlushUnlock(g) ==
    /\ pc[g] = "Flush.Unlock"
    /\ ret' = [ret EXCEPT !.c.mu.w = @ \ {g}]
    /\ pc' = [pc EXCEPT ![g] = "done"]
    /\ UNCHANGED call

NextCache ==
    \E g \in Goroutines :
        \/ GetRLock(g) \/ GetRead(g) \/ GetHit(g) \/ GetMiss(g) \/ GetFill(g)
        \/ GetLock(g) \/ GetRecheck(g) \/ GetInsert(g) \/ GetRange(g)
        \/ GetUnlock(g)
        \/ EvictLock(g) \/ EvictEvict(g) \/ EvictUnlock(g)
        \/ FlushLock(g) \/ FlushClear(g) \/ FlushUnlock(g)

SpecCache == InitCache /\ [][NextCache]_vars

\* The goroutine is at a statement that reads c.m, or that writes it
Reads(g) == pc[g] \in {"Get.read", "Get.recheck"}
Writes(g) == pc[g] \in {"Get.insert", "Get.range", "Evict.evictLocked", "Flush.clear"}

\* The sizes of the elements of m added up
RECURSIVE TotalSize(_, _)
TotalSize(m, S) ==
    IF S = {} THEN 0
    ELSE LET k == CHOOSE x \in S : TRUE
         IN  size(m[k]) + TotalSize(m, S \ {k})

\* C19: however the goroutines' calls of Get, Evict and Flush interleave, a
\* key is inserted only while the map has no element for it, so that the
\* insertions for a key exceed its removals by one exactly while it has an
\* element; the size counter is the sum of the sizes of the elements held;
\* as long as a key was never removed (by Evict, by Flush or by the loop that
\* evicts from a full cache), every Get for it that has returned has returned
\* the value inserted first; and no goroutine is at a write of the map while
\* another is at a read or a write of it.
C19_OneResultRetained ==
    /\ \A k \in Keys :
          /\ ret.hist.inserted[k] - ret.hist.removed[k]
                = IF ret.c.m[k] # None THEN 1 ELSE 0
          /\ ret.hist.inserted[k] <= ret.hist.fills[k]
    /\ ret.c.n = TotalSize(ret.c.m, Keys)
    /\ \A g \in Goroutines :
          (pc[g] = "done" /\ call[g].fn = "Get" /\ ret.hist.removed[call[g].k] = 0)
              => /\ ret.got[g] # None
                 /\ ret.got[g] = ret.hist.first[call[g].k]
                 /\ ret.got[g] = ret.c.m[call[g].k]
    /\ \A g, h \in Goroutines :
          (g # h /\ Writes(g)) => ~(Reads(h) \/ Writes(h))

\* Two goroutines have called Get("k1") at once: fill ran for both, one value
\* of size 2 was inserted and never removed, and both calls returned it.
C19_Witness ==
    /\ pc[1] = "done" /\ pc[2] = "done"
    /\ call[1] = [fn |-> "Get", k |-> "k1"] /\ call[2] = call[1]
    /\ ret.hist.fills["k1"] = 2
    /\ ret.hist.inserted["k1"] = 1 /\ ret.hist.removed["k1"] = 0
    /\ ret.c.n = 2 /\ ret.c.m["k1"] = [by |-> 2, size |-> 2]
    /\ ret.got[1] = ret.c.m["k1"] /\ ret.got[2] = ret.c.m["k1"]

-----------------------------------------------------------------------------
(* UnmarshalBinary on malformed input *)

\* The bytes of b before the first one without the continuation bit
RECURSIVE Leading(_)
Leading(b) == IF b = <<>> \/ b[1] < 128 THEN 0 ELSE 1 + Leading(Tail(b))

\* b holds a byte without the continuation bit
Complete(b) == Leading(b) < Len(b)

\* The varint that ends at byte t of b does not fit 64 bits, or the bits of int
Exceeds(bits, b, t) ==
    \/ t > 10
    \/ t = 10 /\ b[t] > 1
    \/ /\ bits = 32
       /\ \E i \in 5..t : b[i] % 128 # 0 /\ (i > 5 \/ b[i] % 128 >= 16)

\* The rejection: the error is the one given and the receiver is as it was
Rejected(text) == ret.err = <<text>> /\ ret.got = call.recv

\* What holds of every input: the three errors are the only ones and come
\* with the receiver unchanged; a varint that exceeds the int fails with
\* "encoded date overflows int", one that fits and is followed by further
\* bytes with "extra data after date"
RejectsWith(b, t) ==
    /\ ret.err # <<>> =>
          \/ Rejected("encoded date truncated")
          \/ Rejected("encoded date overflows int")
          \/ Rejected("extra data after date")
    /\ (Complete(b) /\ Exceeds(call.bits, b, t)) =>
          Rejected("encoded date overflows int")
    /\ (Complete(b) /\ ~Exceeds(call.bits, b, t) /\ t < Len(b)) =>
          Rejected("extra data after date")
    /\ (Complete(b) /\ ~Exceeds(call.bits, b, t) /\ t = Len(b)) => ret.err = <<>>

\* C21: UnmarshalBinary fails with "encoded date truncated" on every input
\* that holds no complete varint (empty, or every byte with the continuation
\* bit), with "encoded date overflows int" on a varint that exceeds 64 bits
\* or the int, with "extra data after date" on a complete varint followed by
\* further bytes; the three errors are the only ones, and the receiver keeps
\* its value.
C21_ThreeErrors ==
    (pc = "returned" /\ call.fn = "UnmarshalBinary") =>
        /\ RejectsWith(call.b, Leading(call.b) + 1)
        /\ ~Complete(call.b) => Rejected("encoded date truncated")

\* C21, with the inputs that hold no complete varint told apart: up to ten
\* bytes, all with the continuation bit, fail with "encoded date truncated";
\* eleven or more such bytes fail with "encoded date overflows int".
C21_TruncatedUpToTen ==
    (pc = "returned" /\ call.fn = "UnmarshalBinary") =>
        /\ RejectsWith(call.b, Leading(call.b) + 1)
        /\ (~Complete(call.b) /\ Len(call.b) <= 10) =>
              Rejected("encoded date truncated")
        /\ (~Complete(call.b) /\ Len(call.b) > 10) =>
              Rejected("encoded date overflows int")

\* Eleven bytes 0x80 have been rejected as an overflow, the receiver keeping
\* its date.
C21_Witness ==
    /\ pc = "returned" /\ call.fn = "UnmarshalBinary"
    /\ call.b = [k \in 1..11 |-> 128] /\ call.recv = 738000
    /\ Rejected("encoded date overflows int")

-----------------------------------------------------------------------------
(* The lengths of months and years: Of against daysIn and isLeap *)

CalendarSpan == 8
CalendarCentres == {-2000, -400, -100, -4, 0, 4, 100, 400, 1900, 2000, 2023, 2100}
CalendarYears ==
    UNION {(c - CalendarSpan)..(c + CalendarSpan) : c \in CalendarCentres}

InitCalendar ==
    /\ pc = "Of"
    /\ \E y \in CalendarYears, m \in 1..12 : call = [fn |-> "daysIn", year |-> y, month |-> m]
    /\ ret = [d |-> 0]

\* Of(y, m, 1) and Of(y, m+1, 1)
DoOfMonths ==
    /\ pc = "Of" /\ call.fn = "daysIn"
    /\ ret' = [first |-> Of(call.year, call.month, 1),
               next  |-> Of(call.year, call.month + 1, 1)]
    /\ pc' = "OfYears"
    /\ UNCHANGED call

\* The values so far and Of(y, 1, 1), Of(y+1, 1, 1)
ofYears(r, jan, jan2) == [first |-> r.first, next |-> r.next, jan |-> jan, jan2 |-> jan2]

DoOfYears ==
    /\ pc = "OfYears"
    /\ ret' = ofYears(ret, Of(call.year, 1, 1), Of(call.year + 1, 1, 1))
    /\ pc' = "daysIn"
    /\ UNCHANGED call

\* The values so far, daysIn(m, y) and isLeap(y)
withDaysIn(r, n, leap) ==
    [first |-> r.first, next |-> r.next, jan |-> r.jan, jan2 |-> r.jan2,
     daysIn |-> n, isLeap |-> leap]

DoDaysIn ==
    /\ pc = "daysIn"
    /\ ret' = withDaysIn(ret, daysIn(call.month, call.year), isLeap(call.year))
    /\ pc' = "checked"
    /\ UNCHANGED call

NextCalendar == DoOfMonths \/ DoOfYears \/ DoDaysIn

SpecCalendar == InitCalendar /\ [][NextCalendar]_vars

\* C22: for every year y and month m in 1..12, Of(y, m+1, 1) - Of(y, m, 1)
\* is daysIn(m, y), which is 31 or 30 by the month and, for February, 29
\* exactly when y % 4 = 0 and (y % 100 # 0 or y % 400 = 0), else 28, year 0
\* and negative years included; and Of(y+1, 1, 1) - Of(y, 1, 1) is 366 in
\* those leap years and 365 in the others.
C22_MonthAndYearLengths ==
    (pc = "checked" /\ call.fn = "daysIn") =>
        /\ ret.next - ret.first = ret.daysIn
        /\ ret.daysIn = GregorianDaysIn(call.month, call.year)
        /\ ret.isLeap = GregorianLeap(call.year)
        /\ ret.jan2 - ret.jan = IF GregorianLeap(call.year) THEN 366 ELSE 365

\* February of the year -100, no leap year, has been found 28 days long, and
\* the year 365.
C22_Witness ==
    /\ pc = "checked" /\ call.fn = "daysIn"
    /\ call.year = -100 /\ call.month = 2
    /\ ret.next - ret.first = 28 /\ ret.daysIn = 28 /\ ~ret.isLeap
    /\ ret.jan2 - ret.jan = 365

-----------------------------------------------------------------------------
(* The order of the operators and the veto for the short names *)

\* The 14 operators and their tokens in the order of their declaration
DeclaredOps ==
    << <<"opLongMonth", <<"J","a","n","u","a","r","y">> >>,
       <<"opMonth", <<"J","a","n">> >>,
       <<"opLongWeekDay", <<"M","o","n","d","a","y">> >>,
       <<"opWeekDay", <<"M","o","n">> >>,
       <<"opZeroYearDay", <<"0","0","2">> >>,
       <<"opZeroMonth", <<"0","1">> >>,
       <<"opZeroDay", <<"0","2">> >>,
       <<"opYear", <<"0","6">> >>,
       <<"opNumMonth", <<"1">> >>,
       <<"opLongYear", <<"2","0","0","6">> >>,
       <<"opDay", <<"2">> >>,
       <<"opUnderLongYear", <<"_","2","0","0","6">> >>,
       <<"opUnderDay", <<"_","2">> >>,
       <<"opUnderYearDay", <<"_","_","2">> >> >>

LowerCase ==
    {"a","b","c","d","e","f","g","h","i","j","k","l","m",
     "n","o","p","q","r","s","t","u","v","w","x","y","z"}

\* The text occurs in the layout from offset pos on
OccursAt(layout, pos, text) ==
    /\ pos + Len(text) <= Len(layout)
    /\ \A j \in 1..Len(text) : layout[pos + j] = text[j]

\* A lower-case letter follows the text that occurs at pos
LowerFollows(layout, pos, text) ==
    pos + Len(text) < Len(layout) /\ layout[pos + Len(text) + 1] \in LowerCase

\* The k-th declared token matches at offset pos: its text occurs there and,
\* for the short names, is not followed by a lower-case letter
TokenAt(layout, pos, k) ==
    /\ OccursAt(layout, pos, DeclaredOps[k][2])
    /\ ~(k \in {2, 4} /\ LowerFollows(layout, pos, DeclaredOps[k][2]))

\* C23: each of the 14 tokens compiles to its own operator alone ("2006" to
\* the year of four digits, "_2006" to the year after an underscore, "__2"
\* and "002" to the day of the year, "January" and "Monday" to the long
\* names); and nextOp returns the leftmost offset at which a token matches
\* with, of the tokens that match there, the first in the declared order, or
\* the whole layout as a literal if none matches anywhere.
C23_TokensResolve ==
    /\ pc = "compiled" =>
          \A k \in 1..14 :
              call.layout = DeclaredOps[k][2]
                  => ret.prog = <<[op |-> DeclaredOps[k][1], lit |-> <<>>]>>
    /\ pc = "scanned" =>
          IF \A pos \in 0..Len(call.layout), k \in 1..14 : ~TokenAt(call.layout, pos, k)
          THEN ret = [prefix |-> call.layout, op |-> "opLiteral", suffix |-> <<>>]
          ELSE \E k \in 1..14 :
                  /\ ret.op = DeclaredOps[k][1]
                  /\ call.layout = ret.prefix \o DeclaredOps[k][2] \o ret.suffix
                  /\ TokenAt(call.layout, Len(ret.prefix), k)
                  /\ \A j \in 1..(k - 1) : ~TokenAt(call.layout, Len(ret.prefix), j)
                  /\ \A pos \in 0..(Len(ret.prefix) - 1), j \in 1..14 :
                        ~TokenAt(call.layout, pos, j)

\* "2006" has compiled to the year of four digits alone.
C23_Witness ==
    /\ pc = "compiled" /\ call.layout = <<"2","0","0","6">>
    /\ ret.prog = <<[op |-> "opLongYear", lit |-> <<>>]>>

\* The offset in the layout of the k-th instruction of its program
RECURSIVE Offset(_, _)
Offset(prog, k) ==
    IF k = 1 THEN 0 ELSE Offset(prog, k - 1) + Len(instString(prog[k - 1]))

\* The program has the operator op at offset pos
EmitsAt(prog, pos, op) ==
    \E k \in 1..Len(prog) : prog[k].op = op /\ Offset(prog, k) = pos

\* The offset pos lies in a literal of the program
LiteralAt(prog, pos) ==
    \E k \in 1..Len(prog) :
        /\ prog[k].op = "opLiteral"
        /\ Offset(prog, k) <= pos /\ pos < Offset(prog, k) + Len(prog[k].lit)

\* C24: parseLayout emits the operator of a short name ("Jan", "Mon") at
\* every occurrence of its text that is followed by the end of the layout or
\* by anything but a lower-case letter a-z, and at no occurrence that is
\* followed by one: that text is part of a literal, unless the long name
\* ("January", "Monday") is at that offset; the other tokens are emitted
\* whatever follows them.
C24_WordBoundary ==
    pc = "compiled" =>
        /\ \A s \in {2, 4}, pos \in 0..Len(call.layout) :
              OccursAt(call.layout, pos, DeclaredOps[s][2]) =>
                  IF LowerFollows(call.layout, pos, DeclaredOps[s][2])
                  THEN /\ ~EmitsAt(ret.prog, pos, DeclaredOps[s][1])
                       /\ IF OccursAt(call.layout, pos, DeclaredOps[s - 1][2])
                          THEN EmitsAt(ret.prog, pos, DeclaredOps[s - 1][1])
                          ELSE LiteralAt(ret.prog, pos)
                  ELSE EmitsAt(ret.prog, pos, DeclaredOps[s][1])
        /\ \A k \in (1..14) \ {2, 4} :
              (/\ OccursAt(call.layout, 0, DeclaredOps[k][2])
               /\ LowerFollows(call.layout, 0, DeclaredOps[k][2])
               /\ \A j \in 1..(k - 1) : ~OccursAt(call.layout, 0, DeclaredOps[j][2]))
                  => ret.prog[1] = [op |-> DeclaredOps[k][1], lit |-> <<>>]

\* "Janx" has compiled to one literal.
C24_Witness ==
    /\ pc = "compiled" /\ call.layout = <<"J","a","n","x">>
    /\ ret.prog = <<[op |-> "opLiteral", lit |-> <<"J","a","n","x">>]>>

-----------------------------------------------------------------------------
(* The cache's accounting *)

\* What fullRLocked compares c.n with
Limit(c) == IF c.MaxSize = 0 THEN DefaultSize ELSE c.MaxSize

\* While no goroutine holds the write lock, c.n is the sum of the sizes of
\* the elements and at most the limit; after Flush's clear the map is empty
\* and c.n is 0; a Get that has inserted returns the value it filled
Accounted ==
    /\ ret.c.mu.w = {} =>
          /\ ret.c.n = TotalSize(ret.c.m, Keys)
          /\ ret.c.n <= Limit(ret.c)
    /\ \A g \in Goroutines :
          /\ pc[g] = "Flush.Unlock" =>
                (ret.c.n = 0 /\ \A k \in Keys : ret.c.m[k] = None)
          /\ (pc[g] = "done" /\ g \in ret.hist.by) =>
                (ret.got[g] = ret.loc[g].nv /\ ret.got[g].by = g)

\* Evict's step for a key that the map has no element for changes nothing
\* of the cache
EvictAbsent ==
    \A g \in Goroutines :
        (/\ pc[g] = "Evict.evictLocked" /\ pc'[g] = "Evict.Unlock"
         /\ ret.c.m[call[g].k] = None)
            => ret'.c = ret.c

\* C25: in every state reached by interleaved Get, Evict and Flush in which
\* no goroutine holds the write lock, n is the sum of size(v) over the
\* elements of the map and n <= MaxSize (DefaultSize when MaxSize is 0); a
\* Get that inserted returns the value it filled, whatever its loop evicted;
\* Evict of an absent key changes nothing; Flush leaves the map empty and n = 0.
C25_Accounting == []Accounted /\ [][EvictAbsent]_vars

\* With MaxSize 2, goroutine 2 has inserted a value of size 2 for "k2" next
\* to "k1", found the cache full, evicted its own element and returned it.
C25_Witness ==
    /\ \A g \in Goroutines : pc[g] = "done" /\ call[g].fn = "Get"
    /\ call[2].k = "k2" /\ ret.got[2] = [by |-> 2, size |-> 2]
    /\ ret.c.m["k2"] = None /\ ret.c.m["k1"] # None
    /\ ret.hist.inserted["k2"] = 1 /\ ret.hist.removed["k2"] = 1
    /\ ret.c.MaxSize = 2 /\ ret.c.n <= 2

=============================================================================
